---- MODULE Spec2Model ----
(***************************************************************************)
(* Model of the achievements worker: the supervisor loop of index.ts, the  *)
(* queue driver of queue.ts, the counter store of counters.ts, the rule    *)
(* registry and predicate evaluator of rules.ts and the award ledger of    *)
(* awards.ts, run by several worker processes against one relational store *)
(* and one object store.  Every await of the code is one step of a worker. *)
(***************************************************************************)
EXTENDS Integers, Sequences, FiniteSets, TLC

\* ------------------------------------------------------------------ bounds

NumWorkers == 2
NumItems == 2
MaxFailures == 1
MaxGames == 3
MaxChildren == 3
SmallMaxAttempts == 2
SmallBatchSize == 2

\* env.ts: the defaults of the worker configuration
DefaultMaxAttempts == 10
BackoffCap == 7

Workers == 1..NumWorkers
QueueIds == 1..NumItems

NULL == "<null>"

Min(a, b) == IF a <= b THEN a ELSE b
Max(a, b) == IF a >= b THEN a ELSE b
Range(s) == {s[k] : k \in 1..Len(s)}

\* ------------------------------------------------------------- JSON values
\* A JSON value is a tagged record.  A string is held as the list of its
\* segments between '.' characters (what String.split('.') returns), so that
\* "contains a dot" is Len(segs) > 1.  A number is a normalised fraction.

RECURSIVE Gcd(_, _)
Gcd(a, b) == IF b = 0 THEN a ELSE Gcd(b, a % b)
Abs(a) == IF a < 0 THEN -a ELSE a

Frac(n, d) ==
  LET s == IF d < 0 THEN -1 ELSE 1
      g == Gcd(Abs(n), Abs(d))
  IN IF n = 0 THEN [t |-> "num", n |-> 0, d |-> 1]
     ELSE [t |-> "num", n |-> (s * n) \div g, d |-> (s * d) \div g]

JNum(n) == [t |-> "num", n |-> n, d |-> 1]
JBool(b) == [t |-> "bool", b |-> b]
JStr(segs) == [t |-> "str", segs |-> segs]
JNull == [t |-> "null"]
JUndef == [t |-> "undefined"]
JArr(items) == [t |-> "arr", items |-> items]
JObj(ks, vs) == [t |-> "obj", ks |-> ks, vs |-> vs]
JOp(op, args) == JObj(<<op>>, <<JArr(args)>>)

\* util.ts
isNumber(v) == v.t = "num"
isObject(v) == v.t = "obj"
isArray(v) == v.t = "arr"

\* property read obj[key] of a plain object: undefined when the key is absent
Prop(obj, key) ==
  IF \E k \in 1..Len(obj.ks) : obj.ks[k] = key
  THEN obj.vs[CHOOSE k \in 1..Len(obj.ks) : obj.ks[k] = key]
  ELSE JUndef

\* util.ts get(obj, path): walk the dotted path, undefined as soon as the
\* current value is null, undefined or not an object
RECURSIVE getFrom(_, _)
getFrom(current, keys) ==
  IF keys = <<>> THEN current
  ELSE IF current.t # "obj" THEN JUndef
  ELSE getFrom(Prop(current, Head(keys)), Tail(keys))

get(obj, path) == getFrom(obj, path.segs)

\* ------------------------------------------------------ predicate evaluator

ArithOps == {"+", "-", "*", "/"}

\* an arithmetic whose division by zero would yield the dividend
operatorFnDividend(op, a, b) ==
  CASE op = "+" -> Frac(a.n * b.d + b.n * a.d, a.d * b.d)
    [] op = "-" -> Frac(a.n * b.d - b.n * a.d, a.d * b.d)
    [] op = "*" -> Frac(a.n * b.n, a.d * b.d)
    [] op = "/" -> IF b.n # 0 THEN Frac(a.n * b.d, a.d * b.n) ELSE a
    [] OTHER -> JNum(0)

operatorFn(op, a, b) ==
  CASE op = "+" -> Frac(a.n * b.d + b.n * a.d, a.d * b.d)
    [] op = "-" -> Frac(a.n * b.d - b.n * a.d, a.d * b.d)
    [] op = "*" -> Frac(a.n * b.n, a.d * b.d)
    [] op = "/" -> IF b.n # 0 THEN Frac(a.n * b.d, a.d * b.n) ELSE JNum(0)
    [] OTHER -> JNum(0)

compareFn(op, a, b) ==
  CASE op = ">=" -> a.n * b.d >= b.n * a.d
    [] op = ">" -> a.n * b.d > b.n * a.d
    [] op = "<=" -> a.n * b.d <= b.n * a.d
    [] op = "<" -> a.n * b.d < b.n * a.d

RECURSIVE evaluateNode(_, _)
RECURSIVE resolveValue(_, _)
RECURSIVE everyNode(_, _)
RECURSIVE someNode(_, _)
RECURSIVE everyVisits(_, _)
RECURSIVE someVisits(_, _)

handleArithmetic(args, context, op) ==
  IF ~isArray(args) \/ Len(args.items) # 2 THEN JNum(0)
  ELSE LET left == resolveValue(args.items[1], context)
           right == resolveValue(args.items[2], context)
       IN IF ~isNumber(left) \/ ~isNumber(right) THEN JNum(0)
          ELSE operatorFn(op, left, right)

\* a comparison that would count an operand that is no number as 0
handleComparisonCoerce(args, context, op) ==
  IF ~isArray(args) \/ Len(args.items) # 2 THEN FALSE
  ELSE LET left == resolveValue(args.items[1], context)
           right == resolveValue(args.items[2], context)
       IN compareFn(op, IF isNumber(left) THEN left ELSE JNum(0),
                        IF isNumber(right) THEN right ELSE JNum(0))

handleComparison(args, context, op) ==
  IF ~isArray(args) \/ Len(args.items) # 2 THEN FALSE
  ELSE LET left == resolveValue(args.items[1], context)
           right == resolveValue(args.items[2], context)
       IN IF ~isNumber(left) \/ ~isNumber(right) THEN FALSE
          ELSE compareFn(op, left, right)

\* a === b on resolved values: primitives by value, objects and arrays by
\* identity (two evaluations never yield the same object)
StrictEq(a, b) ==
  /\ a.t = b.t
  /\ a.t \notin {"obj", "arr"}
  /\ a = b

handleEquality(args, context, op) ==
  IF ~isArray(args) \/ Len(args.items) # 2 THEN FALSE
  ELSE LET left == resolveValue(args.items[1], context)
           right == resolveValue(args.items[2], context)
       IN IF op = "==" THEN StrictEq(left, right) ELSE ~StrictEq(left, right)

everyNode(items, context) ==
  IF items = <<>> THEN TRUE
  ELSE IF ~evaluateNode(Head(items), context) THEN FALSE
  ELSE everyNode(Tail(items), context)

\* an "or" that would report its last child
someNodeLast(items, context) ==
  items # <<>> /\ evaluateNode(items[Len(items)], context)

someNode(items, context) ==
  IF items = <<>> THEN FALSE
  ELSE IF evaluateNode(Head(items), context) THEN TRUE
  ELSE someNode(Tail(items), context)

handleLogical(args, context, op) ==
  IF ~isArray(args) THEN FALSE
  ELSE IF op = "and" THEN everyNode(args.items, context)
  ELSE someNode(args.items, context)

\* Array.prototype.every calls its callback on the children in order and
\* stops after the first one that yields false: the number of calls
everyVisits(items, context) ==
  IF items = <<>> THEN 0
  ELSE IF ~evaluateNode(Head(items), context) THEN 1
  ELSE 1 + everyVisits(Tail(items), context)

\* Array.prototype.some stops after the first child that yields true
someVisits(items, context) ==
  IF items = <<>> THEN 0
  ELSE IF evaluateNode(Head(items), context) THEN 1
  ELSE 1 + someVisits(Tail(items), context)

\* how many children of a root "and" / "or" node handleLogical evaluates
childrenVisited(node, context) ==
  IF isObject(node) /\ Len(node.ks) = 1 /\ node.ks[1] \in {"and", "or"}
     /\ isArray(node.vs[1])
  THEN IF node.ks[1] = "and" THEN everyVisits(node.vs[1].items, context)
       ELSE someVisits(node.vs[1].items, context)
  ELSE 0

\* a "not" that would not check the length of its argument list
handleNotFirst(args, context) ==
  IF ~isArray(args) \/ args.items = <<>> THEN FALSE
  ELSE ~evaluateNode(args.items[1], context)

handleNot(args, context) ==
  IF ~isArray(args) \/ Len(args.items) # 1 THEN FALSE
  ELSE ~evaluateNode(args.items[1], context)

handleHas(args, context) ==
  IF ~isArray(args) \/ Len(args.items) # 2 THEN FALSE
  ELSE LET obj == resolveValue(args.items[1], context)
           key == resolveValue(args.items[2], context)
       IN IF ~isObject(obj) \/ key.t # "str" THEN FALSE
          ELSE Len(key.segs) = 1 /\ Prop(obj, key.segs[1]) # JUndef

evaluateNode(node, context) ==
  IF node.t = "bool" THEN node.b
  ELSE IF node.t = "str" THEN node.segs # <<"">>
  ELSE IF node.t = "num" THEN node.n # 0
  ELSE IF ~isObject(node) THEN FALSE
  ELSE IF Len(node.ks) # 1 THEN FALSE
  ELSE LET operator == node.ks[1]
           args == node.vs[1]
       IN CASE operator \in {">=", ">", "<=", "<"} ->
                 handleComparison(args, context, operator)
            [] operator \in {"==", "!="} ->
                 handleEquality(args, context, operator)
            [] operator \in {"and", "or"} ->
                 handleLogical(args, context, operator)
            [] operator = "not" -> handleNot(args, context)
            [] operator \in ArithOps ->
                 handleArithmetic(args, context, operator).n # 0
            [] operator = "has" -> handleHas(args, context)
            [] OTHER -> FALSE

resolveValue(value, context) ==
  IF value.t = "str" /\ Len(value.segs) > 1 THEN get(context, value)
  ELSE IF isObject(value)
  THEN IF Len(value.ks) = 1 /\ value.ks[1] \in ArithOps
       THEN handleArithmetic(value.vs[1], context, value.ks[1])
       ELSE JBool(evaluateNode(value, context))
  ELSE value

\* evaluateNode raises nothing on the values above, so the catch of
\* evalPredicate is never taken
evalPredicate(predicate, context) == evaluateNode(predicate, context)


\* ------------------------------------------------------------ event table
\* public.events is written by the producer only; the worker reads it.

StatKeys == <<"points", "ast", "reb", "stl", "blk", "tov", "minutes",
              "fgm", "fga", "tpm", "tpa", "ftm", "fta">>
StatSet == Range(StatKeys)
MaxKeys == {"points", "ast", "reb", "stl", "blk"}

Events ==
  [e1 |-> [id |-> "e1", event_type |-> "player_stat_event", player_id |-> "p1",
           match_id |-> "m1", season_id |-> "s1", league_id |-> NULL,
           game_year |-> "2K25",
           payload |-> [points |-> JNum(52), ast |-> JNum(4), reb |-> JNum(6)]],
   e2 |-> [id |-> "e2", event_type |-> "player_stat_event", player_id |-> "p1",
           match_id |-> NULL, season_id |-> NULL, league_id |-> NULL,
           game_year |-> NULL,
           payload |-> [points |-> JNum(50), ast |-> JStr(<<"x">>)]],
   e3 |-> [id |-> "e3", event_type |-> "match_event", player_id |-> NULL,
           match_id |-> "m1", season_id |-> "s1", league_id |-> NULL,
           game_year |-> NULL, payload |-> [points |-> JNum(1)]],
   e4 |-> [id |-> "e4", event_type |-> "player_stat_event", player_id |-> NULL,
           match_id |-> "m1", season_id |-> "s1", league_id |-> NULL,
           game_year |-> NULL, payload |-> [points |-> JNum(60)]],
   e5 |-> [id |-> "e5", event_type |-> "telemetry", player_id |-> NULL,
           match_id |-> NULL, season_id |-> NULL, league_id |-> NULL,
           game_year |-> NULL, payload |-> [points |-> JNum(1)]]]

EventIds == DOMAIN Events
\* "e0" is an event id of a queue item whose event row does not exist
QueueEventIds == EventIds \cup {"e0"}

\* index.ts extractPerGameStats: a key that is missing or not a number is 0
getNumber(payload, key) ==
  IF key \in DOMAIN payload /\ payload[key].t = "num" THEN payload[key].n ELSE 0

extractPerGameStats(payload) == [k \in StatSet |-> getNumber(payload, k)]

\* -------------------------------------------------------------- rule table
\* public.achievement_rules, read-only for the worker

Rules ==
  <<[id |-> 1, title |-> "50 Bomb", tier |-> "Gold", scope |-> "per_game",
     predicate |-> JOp(">=", <<JStr(<<"per_game", "points">>), JNum(50)>>),
     is_active |-> TRUE, game_year |-> NULL, league_id |-> NULL,
     season_id |-> NULL],
    [id |-> 2, title |-> "Scorer", tier |-> "Bronze", scope |-> "career",
     predicate |-> JOp(">=", <<JStr(<<"career", "pts_total">>), JNum(50)>>),
     is_active |-> TRUE, game_year |-> NULL, league_id |-> NULL,
     season_id |-> NULL],
    [id |-> 3, title |-> "Retired", tier |-> "Silver", scope |-> "per_game",
     predicate |-> JBool(TRUE),
     is_active |-> FALSE, game_year |-> NULL, league_id |-> NULL,
     season_id |-> NULL],
    [id |-> 4, title |-> "Season two", tier |-> "Silver", scope |-> "season",
     predicate |-> JBool(TRUE),
     is_active |-> TRUE, game_year |-> NULL, league_id |-> NULL,
     season_id |-> "s2"],
    [id |-> 5, title |-> "Typo", tier |-> "Bronze", scope |-> "season",
     predicate |-> JOp(">=", <<JStr(<<"per_game", "pointz">>), JNum(50)>>),
     is_active |-> TRUE, game_year |-> NULL, league_id |-> NULL,
     season_id |-> NULL],
    [id |-> 6, title |-> "Last year", tier |-> "Bronze", scope |-> "per_game",
     predicate |-> JBool(TRUE),
     is_active |-> TRUE, game_year |-> "2K24", league_id |-> NULL,
     season_id |-> NULL],
    [id |-> 7, title |-> "League one", tier |-> "Bronze", scope |-> "per_game",
     predicate |-> JBool(TRUE),
     is_active |-> TRUE, game_year |-> NULL, league_id |-> "L1",
     season_id |-> NULL],
    [id |-> 8, title |-> "60 Bomb", tier |-> "Gold", scope |-> "per_game",
     predicate |-> JOp(">=", <<JStr(<<"per_game", "points">>), JNum(60)>>),
     is_active |-> TRUE, game_year |-> "2K25", league_id |-> NULL,
     season_id |-> NULL],
    [id |-> 9, title |-> "Team win", tier |-> "Bronze", scope |-> "team",
     predicate |-> JBool(TRUE),
     is_active |-> TRUE, game_year |-> NULL, league_id |-> NULL,
     season_id |-> NULL]>>

RuleIds == {Rules[k].id : k \in 1..Len(Rules)}
Rule(id) == Rules[CHOOSE k \in 1..Len(Rules) : Rules[k].id = id]

\* a filter that would let an event without the field pass
FilterOkLoose(column, param) ==
  column = NULL \/ param = NULL \/ column = param

\* SQL "column IS NULL OR column = $n": a NULL parameter equals nothing
FilterOk(column, param) == column = NULL \/ (param # NULL /\ column = param)

RECURSIVE SelectRules(_, _, _, _)
SelectRules(k, gameYear, leagueId, seasonId) ==
  IF k > Len(Rules) THEN <<>>
  ELSE LET r == Rules[k]
           rest == SelectRules(k + 1, gameYear, leagueId, seasonId)
       IN IF /\ r.is_active
             /\ r.scope \in {"per_game", "season", "career"}
             /\ FilterOk(r.game_year, gameYear)
             /\ FilterOk(r.league_id, leagueId)
             /\ FilterOk(r.season_id, seasonId)
          THEN <<r.id>> \o rest
          ELSE rest

\* awards.ts
determineScopeKey(rule, matchId, seasonId) ==
  CASE rule.scope = "per_game" -> matchId
    [] rule.scope = "season" -> seasonId
    [] rule.scope = "career" -> NULL
    [] OTHER -> NULL

determineLevel(rule) == 1

\* ----------------------------------------------------------- counter rows

\* a filter that would count only the categories above ten
detectAchievementFlagsAboveTen(stats) ==
  LET doubleDigitCategories == Cardinality({k \in MaxKeys : stats[k] > 10})
  IN [has_50pt_game |-> stats["points"] >= 50,
      has_triple_double |-> doubleDigitCategories >= 3,
      has_double_double |-> doubleDigitCategories >= 2]

detectAchievementFlags(stats) ==
  LET doubleDigitCategories == Cardinality({k \in MaxKeys : stats[k] >= 10})
  IN [has_50pt_game |-> stats["points"] >= 50,
      has_triple_double |-> doubleDigitCategories >= 3,
      has_double_double |-> doubleDigitCategories >= 2]

\* the VALUES list of the INSERT of updateCareerCounters / updateSeasonCounters
NewCounterRow(playerId, scope, seasonId, stats) ==
  LET flags == detectAchievementFlags(stats)
  IN [player_id |-> playerId, scope |-> scope, season_id |-> seasonId,
      games_played |-> 1,
      totals |-> stats,
      has_50pt_game |-> flags.has_50pt_game,
      has_triple_double |-> flags.has_triple_double,
      has_double_double |-> flags.has_double_double,
      maxes |-> [k \in MaxKeys |-> stats[k]]]

\* a DO UPDATE SET list that would store the flags of the new game
MergeCounterRowOverwrite(row, stats) ==
  LET flags == detectAchievementFlags(stats)
  IN [row EXCEPT
        !.games_played = @ + 1,
        !.totals = [k \in StatSet |-> @[k] + stats[k]],
        !.has_50pt_game = flags.has_50pt_game,
        !.has_triple_double = flags.has_triple_double,
        !.has_double_double = flags.has_double_double,
        !.maxes = [k \in MaxKeys |-> Max(@[k], stats[k])]]

\* the DO UPDATE SET list
MergeCounterRow(row, stats) ==
  LET flags == detectAchievementFlags(stats)
  IN [row EXCEPT
        !.games_played = @ + 1,
        !.totals = [k \in StatSet |-> @[k] + stats[k]],
        !.has_50pt_game = @ \/ flags.has_50pt_game,
        !.has_triple_double = @ \/ flags.has_triple_double,
        !.has_double_double = @ \/ flags.has_double_double,
        !.maxes = [k \in MaxKeys |-> Max(@[k], stats[k])]]

\* a unique index compares a nullable key column: two NULLs are equal only
\* when the index was declared NULLS NOT DISTINCT
KeyEq(a, b, nullsDistinct_) ==
  IF a = NULL \/ b = NULL THEN ~nullsDistinct_ /\ a = b ELSE a = b

\* INSERT ... ON CONFLICT (player_id, scope, season_id) DO UPDATE
UpsertCounters(rows, playerId, scope, seasonId, stats, nullsDistinct_) ==
  LET hit == {k \in 1..Len(rows) :
                /\ rows[k].player_id = playerId
                /\ rows[k].scope = scope
                /\ KeyEq(rows[k].season_id, seasonId, nullsDistinct_)}
  IN IF hit = {}
     THEN Append(rows, NewCounterRow(playerId, scope, seasonId, stats))
     ELSE LET k == CHOOSE x \in hit : TRUE
          IN [rows EXCEPT ![k] = MergeCounterRow(rows[k], stats)]

\* the rows of the SELECT of fetchPlayerCounters, by position
FetchedCounterRows(rows, playerId, seasonId) ==
  {k \in 1..Len(rows) :
     /\ rows[k].player_id = playerId
     /\ \/ rows[k].scope = "career" /\ rows[k].season_id = NULL
        \/ rows[k].scope = "season" /\ seasonId # NULL
                                    /\ rows[k].season_id = seasonId}

TotalName ==
  [points |-> "pts_total", ast |-> "ast_total", reb |-> "reb_total",
   stl |-> "stl_total", blk |-> "blk_total", tov |-> "tov_total",
   minutes |-> "minutes_total", fgm |-> "fgm_total", fga |-> "fga_total",
   tpm |-> "tpm_total", tpa |-> "tpa_total", ftm |-> "ftm_total",
   fta |-> "fta_total"]

NoRow == [scope |-> "none"]

StatsJson(stats) ==
  JObj(StatKeys, [k \in 1..Len(StatKeys) |-> JNum(stats[StatKeys[k]])])

\* a counter row as the object the evaluator sees ({} when the row is absent)
RowJson(row) ==
  IF row = NoRow THEN JObj(<<>>, <<>>)
  ELSE JObj(
    <<"games_played", "has_50pt_game", "has_triple_double", "has_double_double",
      "max_pts_game", "max_ast_game", "max_reb_game", "max_stl_game",
      "max_blk_game">>
      \o [k \in 1..Len(StatKeys) |-> TotalName[StatKeys[k]]],
    <<JNum(row.games_played), JBool(row.has_50pt_game),
      JBool(row.has_triple_double), JBool(row.has_double_double),
      JNum(row.maxes["points"]), JNum(row.maxes["ast"]), JNum(row.maxes["reb"]),
      JNum(row.maxes["stl"]), JNum(row.maxes["blk"])>>
      \o [k \in 1..Len(StatKeys) |-> JNum(row.totals[StatKeys[k]])])

\* index.ts 225-229
EvaluationContext(stats, season, career) ==
  JObj(<<"per_game", "season", "career">>,
       <<StatsJson(stats), RowJson(season), RowJson(career)>>)


\* ------------------------------------------------------------------- state

VARIABLES
  queryImpl,     \* which query() of db.ts runs the SQL: "pool" or "stub"
  nullsDistinct, \* whether the unique indexes treat two NULL keys as distinct
  env,           \* the validated configuration (env.ts)
  now,           \* the clock, in minutes
  queue,         \* public.event_queue: queue id -> row
  counters,      \* public.player_counters: the rows, in insertion order
  awards,        \* public.player_awards: the set of rows
  objectStore,   \* the keys written to the bucket
  failuresLeft,  \* how many more store / object store calls may fail
  awardLog,      \* the outcomes insertAward logged
  pc,            \* per worker: the await it is suspended at
  sel,           \* per worker: the ids selected by claimBatch
  batch,         \* per worker: queueItems of the iteration
  idx,           \* per worker: loop index i (1-based)
  processed,     \* per worker: processedQueueIds
  ruleFailed,    \* per worker: ids of this batch with a "Failed to process rule"
  retry,         \* per worker: locals of markRetry
  pipe,          \* per worker: locals of processPlayerStatEvent
  isShuttingDown, \* the cancellation flag of index.ts 14
  probe          \* the arguments and the result of a function called directly

vars == <<queryImpl, nullsDistinct, env, now, queue, counters, awards,
          objectStore, failuresLeft, awardLog, pc, sel, batch, idx, processed,
          ruleFailed, retry, pipe, isShuttingDown, probe>>

config == <<queryImpl, nullsDistinct, env>>
stores == <<counters, awards, objectStore, awardLog>>

\* no function is called from outside the worker loop
NoProbe == [kind |-> "none"]

NoRetry == [attempts |-> 0, msg |-> NULL]
NoPipe == [season |-> NoRow, career |-> NoRow, rules |-> <<>>, ruleIdx |-> 0,
           awardId |-> 0]

\* worker processes 1..n run the loop; the others were never started
InitWorkers(n) ==
  /\ pc = [w \in Workers |-> IF w <= n THEN "idle" ELSE "off"]
  /\ sel = [w \in Workers |-> <<>>]
  /\ batch = [w \in Workers |-> <<>>]
  /\ idx = [w \in Workers |-> 0]
  /\ processed = [w \in Workers |-> <<>>]
  /\ ruleFailed = [w \in Workers |-> {}]
  /\ retry = [w \in Workers |-> NoRetry]
  /\ pipe = [w \in Workers |-> NoPipe]
  /\ isShuttingDown = FALSE

InitStores ==
  /\ now = 0
  /\ counters = <<>>
  /\ awards = {}
  /\ objectStore = {}
  /\ awardLog = {}
  /\ failuresLeft = MaxFailures

\* db.ts holds two query(): the pg pool one and the Supabase-era stub.  The
\* schema of the unique indexes is not part of the sources.
InitBuild ==
  \/ queryImpl = "stub" /\ nullsDistinct = TRUE
  \/ queryImpl = "pool" /\ nullsDistinct \in BOOLEAN

\* the producer inserts queue rows as queued, with no attempt made
NewQueueRow(eventId) ==
  [event_id |-> eventId, status |-> "queued", attempts |-> 0, visible_at |-> 0,
   last_error |-> NULL]

\* several workers drain a queue of player_stat_events, with and without a
\* player_id
Init ==
  /\ InitBuild
  /\ env = [BATCH_SIZE |-> SmallBatchSize, MAX_ATTEMPTS |-> SmallMaxAttempts]
  /\ queue \in [QueueIds -> {NewQueueRow(e) : e \in {"e1", "e4"}}]
  /\ queue[1].event_id = "e1"
  /\ InitStores
  /\ InitWorkers(NumWorkers)
  /\ probe = NoProbe

\* one worker drains a queue of any events
InitSolo ==
  /\ InitBuild
  /\ env = [BATCH_SIZE |-> SmallBatchSize, MAX_ATTEMPTS |-> SmallMaxAttempts]
  /\ queue \in [QueueIds -> {NewQueueRow(e) : e \in QueueEventIds}]
  /\ InitStores
  /\ InitWorkers(1)
  /\ probe = NoProbe

\* one worker, the default attempt limit, and a queue whose first item fails
\* on every attempt (its event is missing or has no player_id) while the
\* other items are events the pipeline ignores
InitBackoff ==
  /\ InitBuild
  /\ env = [BATCH_SIZE |-> SmallBatchSize, MAX_ATTEMPTS |-> DefaultMaxAttempts]
  /\ queue \in [QueueIds -> {NewQueueRow(e) : e \in {"e0", "e3", "e4", "e5"}}]
  /\ queue[1].event_id \in {"e0", "e4"}
  /\ \A i \in QueueIds \ {1} : queue[i].event_id \in {"e3", "e5"}
  /\ InitStores
  /\ InitWorkers(1)
  /\ probe = NoProbe

\* ------------------------------------------------------------ queue driver

RECURSIVE SortedSeq(_)
SortedSeq(S) ==
  IF S = {} THEN <<>>
  ELSE LET m == CHOOSE x \in S : \A y \in S : x <= y
       IN <<m>> \o SortedSeq(S \ {m})

\* a select without the filter on visible_at
SelectQueuedAnyTime(q, nowv, limit) ==
  LET eligible == SortedSeq({i \in DOMAIN q : q[i].status = "queued"})
  IN SubSeq(eligible, 1, Min(limit, Len(eligible)))

\* queue.ts 28-34: status = queued, visible_at <= now, order by id, limit
SelectQueued(q, nowv, limit) ==
  LET eligible == SortedSeq({i \in DOMAIN q :
                     q[i].status = "queued" /\ q[i].visible_at <= nowv})
  IN SubSeq(eligible, 1, Min(limit, Len(eligible)))

\* queue.ts 46-52: update ... set status = processing where id in (ids)
UpdateProcessing(q, ids) ==
  [i \in DOMAIN q |->
     IF i \in ids THEN [q[i] EXCEPT !.status = "processing"] ELSE q[i]]

\* queue.ts 111-117: update ... set status = done where id in (queueIds)
UpdateDone(q, ids) ==
  [i \in DOMAIN q |->
     IF i \in ids THEN [q[i] EXCEPT !.status = "done"] ELSE q[i]]

\* a backoff that doubles without the cap of queue.ts 179
backoffUncapped(newAttempts) == 2 ^ newAttempts

\* queue.ts 179
backoffMinutes(newAttempts) == 2 ^ Min(newAttempts, BackoffCap)

\* queue.ts 152-192: the row markRetry writes, from the attempts it read
RetryRow(row, currentAttempts, errorMessage, nowv, maxAttempts) ==
  LET newAttempts == currentAttempts + 1
  IN IF newAttempts >= maxAttempts
     THEN [row EXCEPT !.status = "error", !.attempts = newAttempts,
                      !.last_error = errorMessage]
     ELSE [row EXCEPT !.status = "queued", !.attempts = newAttempts,
                      !.last_error = errorMessage,
                      !.visible_at = nowv + backoffMinutes(newAttempts)]

\* ---------------------------------------------------------- award ledger

AwardKey(a) == <<a.player_id, a.rule_id, a.scope_key, a.level>>

\* ON CONFLICT (player_id, rule_id, scope_key, level)
AwardConflict(rows, data, nullsDistinct_) ==
  \E a \in rows :
    /\ a.player_id = data.player_id
    /\ a.rule_id = data.rule_id
    /\ KeyEq(a.scope_key, data.scope_key, nullsDistinct_)
    /\ a.level = data.level

\* asset_svg_url of an award without badge: NULL, as a key of no segment
NoUrl == <<>>

NewAwardId(rows) == Cardinality(rows) + 1

NewAwardRow(rows, data) ==
  [id |-> NewAwardId(rows), rule_id |-> data.rule_id,
   player_id |-> data.player_id, scope_key |-> data.scope_key,
   level |-> data.level, asset_svg_url |-> NoUrl]

\* badges/{player_id}/{award_id}.svg
BadgeKey(playerId, awardId) == <<"badges", playerId, awardId>>


\* ---------------------------------------------------------- supervisor loop

Cur(w) == batch[w][idx[w]]
CurEvent(w) == Events[Cur(w).event_id]
CurStats(w) == extractPerGameStats(CurEvent(w).payload)

\* back to the top of the while loop of startProcessingLoop
ToIdle(w) ==
  /\ pc' = [pc EXCEPT ![w] = "idle"]
  /\ sel' = [sel EXCEPT ![w] = <<>>]
  /\ batch' = [batch EXCEPT ![w] = <<>>]
  /\ idx' = [idx EXCEPT ![w] = 0]
  /\ processed' = [processed EXCEPT ![w] = <<>>]
  /\ retry' = [retry EXCEPT ![w] = NoRetry]
  /\ pipe' = [pipe EXCEPT ![w] = NoPipe]

\* index.ts 113-121 with queue.ts 28-42: the while condition and the select
\* of claimBatch.  An empty result sleeps and polls again, which changes
\* nothing.
ClaimSelect(w) ==
  /\ pc[w] = "idle"
  /\ ~isShuttingDown
  /\ SelectQueued(queue, now, env.BATCH_SIZE) # <<>>
  /\ sel' = [sel EXCEPT ![w] = SelectQueued(queue, now, env.BATCH_SIZE)]
  /\ pc' = [pc EXCEPT ![w] = "claim_update"]
  /\ UNCHANGED <<config, isShuttingDown,
                 probe, now, queue, stores, failuresLeft, batch, idx,
                 processed, ruleFailed, retry, pipe>>

\* queue.ts 44-63: the update of claimBatch, then index.ts 124-131
ClaimUpdate(w) ==
  /\ pc[w] = "claim_update"
  /\ queue' = UpdateProcessing(queue, Range(sel[w]))
  /\ batch' = [batch EXCEPT ![w] =
                 [k \in 1..Len(sel[w]) |->
                    [id |-> sel[w][k], event_id |-> queue[sel[w][k]].event_id]]]
  /\ sel' = [sel EXCEPT ![w] = <<>>]
  /\ idx' = [idx EXCEPT ![w] = 1]
  /\ processed' = [processed EXCEPT ![w] = <<>>]
  /\ ruleFailed' = [ruleFailed EXCEPT ![w] = {}]
  /\ pc' = [pc EXCEPT ![w] = "load_events"]
  /\ UNCHANGED <<config, isShuttingDown,
                 probe, now, stores, failuresLeft, retry, pipe>>

\* index.ts 133-156 and 177-203: the for loop from position k up to its next
\* await, with processedQueueIds = proc.  Events of another type than
\* player_stat_event complete without an await; a missing event and a missing
\* player_id end in the call of markRetry; past the last item the loop leaves
\* for markDone, or for the next iteration when nothing was processed.
\* a for loop that would take every event for a player_stat_event
RECURSIVE DispatchAnyType(_, _, _)
DispatchAnyType(items, k, proc) ==
  IF k > Len(items)
  THEN [pc |-> IF proc = <<>> THEN "idle" ELSE "mark_done", idx |-> k,
        processed |-> proc, msg |-> NULL]
  ELSE IF items[k].event_id \notin EventIds
  THEN [pc |-> "retry_select", idx |-> k, processed |-> proc,
        msg |-> "event_not_found"]
  ELSE IF Events[items[k].event_id].player_id = NULL
  THEN [pc |-> "retry_select", idx |-> k, processed |-> proc,
        msg |-> "missing_player_id"]
  ELSE [pc |-> "update_career", idx |-> k, processed |-> proc, msg |-> NULL]

\* a for loop that would run the pipeline without asking for a player_id
RECURSIVE DispatchAnyPlayer(_, _, _)
DispatchAnyPlayer(items, k, proc) ==
  IF k > Len(items)
  THEN [pc |-> IF proc = <<>> THEN "idle" ELSE "mark_done", idx |-> k,
        processed |-> proc, msg |-> NULL]
  ELSE IF items[k].event_id \notin EventIds
  THEN [pc |-> "retry_select", idx |-> k, processed |-> proc,
        msg |-> "event_not_found"]
  ELSE IF Events[items[k].event_id].event_type # "player_stat_event"
  THEN DispatchAnyPlayer(items, k + 1, Append(proc, items[k].id))
  ELSE [pc |-> "update_career", idx |-> k, processed |-> proc, msg |-> NULL]

RECURSIVE Dispatch(_, _, _)
Dispatch(items, k, proc) ==
  IF k > Len(items)
  THEN [pc |-> IF proc = <<>> THEN "idle" ELSE "mark_done", idx |-> k,
        processed |-> proc, msg |-> NULL]
  ELSE IF items[k].event_id \notin EventIds
  THEN [pc |-> "retry_select", idx |-> k, processed |-> proc,
        msg |-> "event_not_found"]
  ELSE IF Events[items[k].event_id].event_type # "player_stat_event"
  THEN Dispatch(items, k + 1, Append(proc, items[k].id))
  ELSE IF Events[items[k].event_id].player_id = NULL
  THEN [pc |-> "retry_select", idx |-> k, processed |-> proc,
        msg |-> "missing_player_id"]
  ELSE [pc |-> "update_career", idx |-> k, processed |-> proc, msg |-> NULL]

\* the worker goes on with item k of its batch
GoItem(w, k, proc) ==
  LET d == Dispatch(batch[w], k, proc)
  IN IF d.pc = "idle"
     THEN ToIdle(w)
     ELSE /\ pc' = [pc EXCEPT ![w] = d.pc]
          /\ idx' = [idx EXCEPT ![w] = d.idx]
          /\ processed' = [processed EXCEPT ![w] = d.processed]
          /\ retry' = [retry EXCEPT ![w] = [attempts |-> 0, msg |-> d.msg]]
          /\ pipe' = [pipe EXCEPT ![w] = NoPipe]
          /\ UNCHANGED <<sel, batch>>

\* index.ts 127-128, queue.ts 70-101, then the first item
LoadEvents(w) ==
  /\ pc[w] = "load_events"
  /\ GoItem(w, 1, <<>>)
  /\ UNCHANGED <<config, isShuttingDown,
                 probe, now, queue, stores, failuresLeft, ruleFailed>>

\* the call of markRetry(queueItem.id, message) of index.ts 154
CallMarkRetry(w, message) ==
  /\ retry' = [retry EXCEPT ![w] = [attempts |-> 0, msg |-> message]]
  /\ pipe' = [pipe EXCEPT ![w] = NoPipe]
  /\ pc' = [pc EXCEPT ![w] = "retry_select"]
  /\ UNCHANGED <<sel, batch, idx, processed, ruleFailed>>

\* a for loop that would step over the item after the one it pushed
PushProcessedSkipping(w) ==
  GoItem(w, idx[w] + 2, Append(processed[w], Cur(w).id))

\* index.ts 145 and the next turn of the for loop
PushProcessed(w) == GoItem(w, idx[w] + 1, Append(processed[w], Cur(w).id))

\* counters.ts 73-160 run by query()
UpdateCareer(w) ==
  /\ pc[w] = "update_career"
  /\ counters' = IF queryImpl = "pool"
                 THEN UpsertCounters(counters, CurEvent(w).player_id, "career",
                                     NULL, CurStats(w), nullsDistinct)
                 ELSE counters
  /\ pc' = [pc EXCEPT ![w] = IF CurEvent(w).season_id # NULL
                             THEN "update_season" ELSE "fetch_counters"]
  /\ UNCHANGED <<config, isShuttingDown,
                 probe, now, queue, awards, objectStore, awardLog,
                 failuresLeft, sel, batch, idx, processed, ruleFailed, retry,
                 pipe>>

\* counters.ts 162-253 run by query()
UpdateSeason(w) ==
  /\ pc[w] = "update_season"
  /\ counters' = IF queryImpl = "pool"
                 THEN UpsertCounters(counters, CurEvent(w).player_id, "season",
                                     CurEvent(w).season_id, CurStats(w),
                                     nullsDistinct)
                 ELSE counters
  /\ pc' = [pc EXCEPT ![w] = "fetch_counters"]
  /\ UNCHANGED <<config, isShuttingDown,
                 probe, now, queue, awards, objectStore, awardLog,
                 failuresLeft, sel, batch, idx, processed, ruleFailed, retry,
                 pipe>>

CurContext(w, p) == EvaluationContext(CurStats(w), p.season, p.career)

\* a rule loop that would not look at the result of evalPredicate
NextPassingAny(ruleIds, context, from) ==
  IF from <= Len(ruleIds) THEN from ELSE 0

\* index.ts 250-256: the first rule at position >= from whose predicate
\* passes (0 when there is none)
NextPassing(ruleIds, context, from) ==
  LET passing == {k \in from..Len(ruleIds) :
                    evalPredicate(Rule(ruleIds[k]).predicate, context)}
  IN IF passing = {} THEN 0
     ELSE CHOOSE k \in passing : \A j \in passing : k <= j

\* the for loop of index.ts 250-323 runs on from rule position `from` until
\* the next await (insertAward) or the end of the rules
ContinueRules(w, p, from) ==
  LET k == NextPassing(p.rules, CurContext(w, p), from)
  IN IF k = 0
     THEN PushProcessed(w)
     ELSE /\ pipe' = [pipe EXCEPT ![w] = [p EXCEPT !.ruleIdx = k,
                                                   !.awardId = 0]]
          /\ pc' = [pc EXCEPT ![w] = "insert_award"]
          /\ UNCHANGED <<sel, batch, idx, processed, retry>>

\* counters.ts 255-305 and rules.ts 26-67, both run by query(), then the
\* rule loop up to its first await.  rows.find takes the first row of each
\* scope; the SELECT has no ORDER BY, so any row of that scope may come first.
\* The rule table is read-only, so the two reads are one step.
FetchCountersAndRules(w) ==
  /\ pc[w] = "fetch_counters"
  /\ LET found == IF queryImpl = "pool"
                  THEN FetchedCounterRows(counters, CurEvent(w).player_id,
                                          CurEvent(w).season_id)
                  ELSE {}
         careers == {counters[k] : k \in {x \in found :
                                            counters[x].scope = "career"}}
         seasons == {counters[k] : k \in {x \in found :
                                            counters[x].scope = "season"}}
         rules == IF queryImpl = "pool"
                  THEN SelectRules(1, CurEvent(w).game_year,
                                   CurEvent(w).league_id, CurEvent(w).season_id)
                  ELSE <<>>
     IN \E c \in (IF careers = {} THEN {NoRow} ELSE careers),
           s \in (IF seasons = {} THEN {NoRow} ELSE seasons) :
          ContinueRules(w, [NoPipe EXCEPT !.career = c, !.season = s,
                                          !.rules = rules], 1)
  /\ UNCHANGED <<config, isShuttingDown,
                 probe, now, queue, stores, failuresLeft, ruleFailed>>

\* index.ts 265-287: the idempotency tuple of the award of the current rule
AwardData(w) ==
  LET rule == Rule(pipe[w].rules[pipe[w].ruleIdx])
  IN [rule_id |-> rule.id, player_id |-> CurEvent(w).player_id,
      scope_key |-> determineScopeKey(rule, CurEvent(w).match_id,
                                      CurEvent(w).season_id),
      level |-> determineLevel(rule)]

\* awards.ts 79-97: what insertAward logs about one call
LogEntry(w, data, rows, created) ==
  [worker |-> w, key |-> AwardKey(data),
   existed |-> \E a \in rows : AwardKey(a) = AwardKey(data),
   created |-> created]

\* index.ts 290-292 with awards.ts 41-107: INSERT ... ON CONFLICT DO NOTHING
\* RETURNING id, run by query(); the stub returns no row
InsertAward(w) ==
  /\ pc[w] = "insert_award"
  /\ LET data == AwardData(w)
         inserted == queryImpl = "pool"
                       /\ ~AwardConflict(awards, data, nullsDistinct)
     IN /\ awardLog' = awardLog \cup {LogEntry(w, data, awards, inserted)}
        /\ IF inserted
           THEN /\ awards' = awards \cup {NewAwardRow(awards, data)}
                /\ pipe' = [pipe EXCEPT ![w].awardId = NewAwardId(awards)]
                /\ pc' = [pc EXCEPT ![w] = "upload_badge"]
                /\ UNCHANGED <<sel, batch, idx, processed, retry>>
           ELSE /\ awards' = awards
                /\ ContinueRules(w, pipe[w], pipe[w].ruleIdx + 1)
  /\ UNCHANGED <<config, isShuttingDown,
                 probe, now, queue, counters, objectStore, failuresLeft,
                 ruleFailed>>

\* index.ts 294-299 with svg.ts generateAndUploadBadge: the PutObject succeeds
UploadBadge(w) ==
  /\ pc[w] = "upload_badge"
  /\ objectStore' = objectStore \cup
                      {BadgeKey(CurEvent(w).player_id, pipe[w].awardId)}
  /\ pc' = [pc EXCEPT ![w] = "attach_url"]
  /\ UNCHANGED <<config, isShuttingDown,
                 probe, now, queue, counters, awards, awardLog, failuresLeft,
                 sel, batch, idx, processed, ruleFailed, retry, pipe>>

\* an UPDATE without the WHERE id = $1
SetAssetUrlEverywhere(rows, awardId, assetUrl) ==
  {[a EXCEPT !.asset_svg_url = assetUrl] : a \in rows}

\* awards.ts 112-116: UPDATE ... SET asset_svg_url = $2 WHERE id = $1
SetAssetUrl(rows, awardId, assetUrl) ==
  {IF a.id = awardId THEN [a EXCEPT !.asset_svg_url = assetUrl] ELSE a :
     a \in rows}

\* a catch that would leave the rule loop instead of going on
StopAfterError(ruleIds, k) == Len(ruleIds) + 1

\* where the for loop goes on after the catch of index.ts 314-322
ResumeAfterError(ruleIds, k) == k + 1

\* index.ts 314-322: the rule's error is logged and the loop goes on
CatchRuleError(w) ==
  /\ ruleFailed' = [ruleFailed EXCEPT ![w] = @ \cup {Cur(w).id}]
  /\ ContinueRules(w, pipe[w], ResumeAfterError(pipe[w].rules, pipe[w].ruleIdx))

\* index.ts 302 with awards.ts 109-137; rowCount 0 raises "not found"
AttachUrl(w) ==
  /\ pc[w] = "attach_url"
  /\ IF queryImpl = "pool" /\ \E a \in awards : a.id = pipe[w].awardId
     THEN /\ awards' = SetAssetUrl(awards, pipe[w].awardId,
                          BadgeKey(CurEvent(w).player_id, pipe[w].awardId))
          /\ ContinueRules(w, pipe[w], pipe[w].ruleIdx + 1)
          /\ UNCHANGED ruleFailed
     ELSE /\ awards' = awards
          /\ CatchRuleError(w)
  /\ UNCHANGED <<config, isShuttingDown,
                 probe, now, queue, counters, objectStore, awardLog,
                 failuresLeft>>

\* insertAward, the upload or attachAssetUrl raises: a store error of the
\* pool, or an object store error
RuleError(w) ==
  /\ failuresLeft > 0
  /\ \/ pc[w] \in {"insert_award", "attach_url"} /\ queryImpl = "pool"
     \/ pc[w] = "upload_badge"
  /\ failuresLeft' = failuresLeft - 1
  /\ CatchRuleError(w)
  /\ UNCHANGED <<config, isShuttingDown, probe, now, queue, stores>>

\* a query of steps 3-6 of the pipeline raises (pool only: the stub never
\* raises); processEvent throws and index.ts 146-154 calls markRetry
PipelineError(w) ==
  /\ failuresLeft > 0
  /\ queryImpl = "pool"
  /\ pc[w] \in {"update_career", "update_season", "fetch_counters"}
  /\ failuresLeft' = failuresLeft - 1
  /\ CallMarkRetry(w, "db_error")
  /\ UNCHANGED <<config, isShuttingDown, probe, now, queue, stores>>

\* queue.ts 141-153: markRetry reads the attempts of the row
MarkRetrySelect(w) ==
  /\ pc[w] = "retry_select"
  /\ retry' = [retry EXCEPT ![w].attempts = queue[Cur(w).id].attempts]
  /\ pc' = [pc EXCEPT ![w] = "retry_update"]
  /\ UNCHANGED <<config, isShuttingDown,
                 probe, now, queue, stores, failuresLeft, sel, batch, idx,
                 processed, ruleFailed, pipe>>

\* queue.ts 155-204: markRetry writes the row; the for loop goes on
MarkRetryUpdate(w) ==
  /\ pc[w] = "retry_update"
  /\ queue' = [queue EXCEPT ![Cur(w).id] =
                 RetryRow(@, retry[w].attempts, retry[w].msg, now,
                          env.MAX_ATTEMPTS)]
  /\ GoItem(w, idx[w] + 1, processed[w])
  /\ UNCHANGED <<config, isShuttingDown,
                 probe, now, stores, failuresLeft, ruleFailed>>

\* index.ts 159-162 with queue.ts 103-134
MarkDone(w) ==
  /\ pc[w] = "mark_done"
  /\ queue' = UpdateDone(queue, Range(processed[w]))
  /\ ToIdle(w)
  /\ ruleFailed' = [ruleFailed EXCEPT ![w] = {}]
  /\ UNCHANGED <<config, isShuttingDown, probe, now, stores, failuresLeft>>

\* a queue call (claimBatch, loadEvents, markRetry, markDone) raises a store
\* error: index.ts 164-171 logs it, sleeps and starts the next iteration
QueueError(w) ==
  /\ failuresLeft > 0
  /\ pc[w] \in {"claim_update", "load_events", "retry_select", "retry_update",
                "mark_done"}
  /\ failuresLeft' = failuresLeft - 1
  /\ ToIdle(w)
  /\ ruleFailed' = [ruleFailed EXCEPT ![w] = {}]
  /\ UNCHANGED <<config, isShuttingDown, probe, now, queue, stores>>

\* time passes until the next retried item becomes visible
Tick ==
  /\ \E i \in QueueIds : queue[i].status = "queued" /\ queue[i].visible_at > now
  /\ now' = CHOOSE t \in {queue[i].visible_at : i \in
                            {j \in QueueIds : /\ queue[j].status = "queued"
                                              /\ queue[j].visible_at > now}} :
              \A i \in QueueIds :
                 queue[i].status = "queued" /\ queue[i].visible_at > now
                   => t <= queue[i].visible_at
  /\ UNCHANGED <<config, isShuttingDown,
                 probe, queue, stores, failuresLeft, pc, sel, batch, idx,
                 processed, ruleFailed, retry, pipe>>

Next ==
  \/ \E w \in Workers :
       \/ ClaimSelect(w)
       \/ ClaimUpdate(w)
       \/ LoadEvents(w)
       \/ UpdateCareer(w)
       \/ UpdateSeason(w)
       \/ FetchCountersAndRules(w)
       \/ InsertAward(w)
       \/ UploadBadge(w)
       \/ AttachUrl(w)
       \/ RuleError(w)
       \/ PipelineError(w)
       \/ MarkRetrySelect(w)
       \/ MarkRetryUpdate(w)
       \/ MarkDone(w)
       \/ QueueError(w)
  \/ Tick

Spec == Init /\ [][Next]_vars

SpecSolo == InitSolo /\ [][Next]_vars

\* the steps a queue of events without a pipeline run can take
NextBackoff ==
  \/ \E w \in Workers :
       \/ ClaimSelect(w)
       \/ ClaimUpdate(w)
       \/ LoadEvents(w)
       \/ MarkRetrySelect(w)
       \/ MarkRetryUpdate(w)
       \/ MarkDone(w)
       \/ QueueError(w)
  \/ Tick

SpecBackoff == InitBackoff /\ [][NextBackoff]_vars

\* ------------------------------------------------- counter store, directly
\* updateCareerCounters and updateSeasonCounters called through the pool for
\* the games of one player, one call per game and scope, in any order.

ProbePlayer == "p1"
ProbeSeason == "s1"

\* payloads of player_stat_events; the producer does not restrict the sign
GamePayloads ==
  {[points |-> JNum(pts), ast |-> JNum(a), reb |-> JNum(10)] :
     pts \in {-5, 12, 50}, a \in {0, 10}}

InitCounters ==
  /\ queryImpl = "pool"
  /\ nullsDistinct \in BOOLEAN
  /\ env = [BATCH_SIZE |-> SmallBatchSize, MAX_ATTEMPTS |-> SmallMaxAttempts]
  /\ queue = <<>>
  /\ InitStores
  /\ InitWorkers(0)
  /\ probe = [kind |-> "counters", games |-> <<>>]

\* one more game is recorded in one scope
RecordGame(scope, seasonId, stats) ==
  /\ Len(probe.games) < MaxGames
  /\ counters' = UpsertCounters(counters, ProbePlayer, scope, seasonId, stats,
                                nullsDistinct)
  /\ probe' = [probe EXCEPT !.games = Append(@, [scope |-> scope,
                                                  stats |-> stats])]
  /\ UNCHANGED <<config, isShuttingDown,
                 now, queue, awards, objectStore, awardLog,
                 failuresLeft, pc, sel, batch, idx, processed, ruleFailed,
                 retry, pipe>>

\* counters.ts 73-160
updateCareerCounters ==
  \E payload \in GamePayloads :
    RecordGame("career", NULL, extractPerGameStats(payload))

\* counters.ts 162-253
updateSeasonCounters ==
  \E payload \in GamePayloads :
    RecordGame("season", ProbeSeason, extractPerGameStats(payload))

NextCounters == updateCareerCounters \/ updateSeasonCounters

SpecCounters == InitCounters /\ [][NextCounters]_vars

\* ------------------------------------------------------ evaluator, directly
\* evalPredicate called on predicates of every shape, in the contexts that
\* processPlayerStatEvent builds for a game and a career row.

ProbeStats == {extractPerGameStats(payload) : payload \in GamePayloads}

ProbeCareerRows ==
  {NoRow} \cup {NewCounterRow(ProbePlayer, "career", NULL, stats) :
                  stats \in ProbeStats}

PathPoints == JStr(<<"per_game", "points">>)
PathTypo == JStr(<<"per_game", "pointz">>)
PathPtsTotal == JStr(<<"career", "pts_total">>)
PathFlag50 == JStr(<<"career", "has_50pt_game">>)
PathFlagTriple == JStr(<<"career", "has_triple_double">>)

\* operands of a comparison, each with what it stands for
Operands ==
  {[node |-> JNum(12), kind |-> "twelve"],
   [node |-> JNum(50), kind |-> "fifty"],
   [node |-> PathPoints, kind |-> "points"],
   [node |-> PathPtsTotal, kind |-> "pts_total"],
   [node |-> JOp("+", <<PathPoints, JNum(1)>>), kind |-> "points_plus_one"],
   [node |-> PathTypo, kind |-> "missing"],
   [node |-> PathFlag50, kind |-> "flag"],
   [node |-> JStr(<<"50">>), kind |-> "string"],
   [node |-> JBool(TRUE), kind |-> "boolean"],
   [node |-> JObj(<<"tier">>, <<JStr(<<"Gold">>)>>), kind |-> "object"]}

ComparisonOps == {">=", ">", "<=", "<"}

ComparisonPredicates ==
  {JOp(op, <<l.node, r.node>>) : op \in ComparisonOps, l \in Operands,
                                r \in Operands}

\* a path where a boolean is expected: at the root, under and, or, not
PathNodes == {PathFlagTriple, PathFlag50, PathPoints, PathTypo}

PathPredicates ==
  PathNodes \cup {JOp(op, <<p>>) : op \in {"and", "or", "not"}, p \in PathNodes}

\* unknown operator, zero or several keys, null, undefined, array, wrong
\* argument shape
MalformedPredicates ==
  {JNull, JUndef, JArr(<<>>), JArr(<<JBool(TRUE)>>), JObj(<<>>, <<>>),
   JObj(<<">=", "<">>, <<JArr(<<JNum(1), JNum(0)>>), JArr(<<JNum(0), JNum(1)>>)>>),
   JOp("xor", <<JBool(TRUE), JBool(FALSE)>>),
   JObj(<<">=">>, <<JNum(1)>>), JOp(">=", <<JNum(1)>>),
   JOp("==", <<JNum(1)>>), JObj(<<"and">>, <<JBool(TRUE)>>),
   JObj(<<"or">>, <<JNull>>),
   JOp("not", <<JBool(FALSE), JBool(FALSE)>>), JOp("+", <<JNum(1)>>),
   JObj(<<"/">>, <<JNum(1)>>), JObj(<<"has">>, <<JNull>>),
   JOp("has", <<JNum(1), JNum(2)>>)}

WellFormedPredicates ==
  {JBool(TRUE), JBool(FALSE),
   JOp("==", <<PathFlag50, JBool(TRUE)>>),
   JOp("!=", <<PathPoints, JNum(50)>>),
   JOp("and", <<JOp(">=", <<PathPoints, JNum(50)>>),
                JOp("not", <<JOp("<", <<PathPtsTotal, JNum(50)>>)>>)>>),
   JOp("or", <<>>), JOp("and", <<>>),
   JOp("/", <<PathPoints, JNum(0)>>),
   JOp("-", <<PathPoints, JNum(12)>>),
   JOp("has", <<JObj(<<"tier">>, <<JStr(<<"Gold">>)>>), JStr(<<"tier">>)>>)}

\* children of "and" / "or": true, false, a comparison, and null (false)
LogicalChildren ==
  {JBool(TRUE), JBool(FALSE), JOp(">=", <<PathPoints, JNum(50)>>), JNull}

ChildLists == UNION {[1..n -> LogicalChildren] : n \in 0..MaxChildren}

LogicalPredicates == {JOp(op, l) : op \in {"and", "or"}, l \in ChildLists}

NotChildren ==
  {JBool(TRUE), JBool(FALSE), JOp(">=", <<PathPoints, JNum(50)>>),
   JOp("and", <<>>)}

\* "not" with its child in a one-element list, and as a single argument
NotPredicates ==
  {JOp("not", <<c>>) : c \in NotChildren}
    \cup {JObj(<<"not">>, <<c>>) : c \in NotChildren}

ArithLeft == {PathPoints, JNum(12)}
ArithRight == {PathPoints, JNum(0), JNum(4)}
ArithLimits == {JNum(0), JNum(3)}

ArithmeticNodes ==
  {JOp(op, <<a, b>>) : op \in ArithOps, a \in ArithLeft, b \in ArithRight}

\* an arithmetic node where a boolean is expected, and as the left operand
\* of a comparison
ArithmeticPredicates ==
  ArithmeticNodes
    \cup {JOp(cmp, <<node, limit>>) : cmp \in ComparisonOps,
                                     node \in ArithmeticNodes,
                                     limit \in ArithLimits}

ProbePredicates ==
  ComparisonPredicates \cup PathPredicates \cup MalformedPredicates
    \cup WellFormedPredicates \cup LogicalPredicates \cup NotPredicates
    \cup ArithmeticPredicates

InitEval ==
  /\ queryImpl = "pool"
  /\ nullsDistinct = TRUE
  /\ env = [BATCH_SIZE |-> SmallBatchSize, MAX_ATTEMPTS |-> SmallMaxAttempts]
  /\ queue = <<>>
  /\ InitStores
  /\ InitWorkers(0)
  /\ probe = [kind |-> "eval"]

\* index.ts 225-229: the context of a game and the player's career row
ProbeContext(p) == EvaluationContext(p.stats, NoRow, p.career)

\* rules.ts 70-80 called once
CallEvalPredicate ==
  \E predicate \in ProbePredicates, stats \in ProbeStats,
     career \in ProbeCareerRows :
    /\ probe.kind = "eval"
    /\ probe' = [kind |-> "evaluated", predicate |-> predicate,
                 stats |-> stats, career |-> career,
                 result |-> evalPredicate(predicate,
                              EvaluationContext(stats, NoRow, career)),
                 visited |-> childrenVisited(predicate,
                               EvaluationContext(stats, NoRow, career))]
    /\ UNCHANGED <<config, isShuttingDown,
                   now, queue, stores, failuresLeft, pc, sel, batch,
                   idx, processed, ruleFailed, retry, pipe>>

NextEval == CallEvalPredicate

SpecEval == InitEval /\ [][NextEval]_vars

\* ---------------------------------------------------- canonical JSON, directly
\* util.ts canonicalJson is JSON.stringify(obj, Object.keys(obj).sort()).  A
\* JSON text is held as the list of its tokens.

\* the object keys of the values below, in the order of Array.prototype.sort
\* (by UTF-16 code units)
KeyOrder ==
  <<">=", "ast", "ast_total", "blk", "blk_total", "career", "fga",
    "fga_total", "fgm", "fgm_total", "fta", "fta_total", "ftm", "ftm_total",
    "games_played", "has_50pt_game", "has_double_double",
    "has_triple_double", "max_ast_game", "max_blk_game", "max_pts_game",
    "max_reb_game", "max_stl_game", "minutes", "minutes_total", "per_game",
    "points", "pts_total", "reb", "reb_total", "rule_predicate", "season",
    "stl", "stl_total", "tov", "tov_total", "tpa", "tpa_total", "tpm",
    "tpm_total">>

KeyRank(key) == CHOOSE i \in 1..Len(KeyOrder) : KeyOrder[i] = key

\* Object.keys(obj).sort()
SortKeys(ks) ==
  LET ranks == SortedSeq({KeyRank(ks[k]) : k \in 1..Len(ks)})
  IN [i \in 1..Len(ranks) |-> KeyOrder[ranks[i]]]

Punct(c) == [k |-> "punct", c |-> c]
Scalar(v) == [k |-> "scalar", v |-> v]

RECURSIVE Stringify(_, _)
RECURSIVE StringifyProperties(_, _, _, _)
RECURSIVE StringifyElements(_, _, _)

\* JSON.stringify with an array as replacer: the array is the list of the
\* property names that are serialized, in that order, for every object of
\* the value, nested ones included; a property whose value is undefined is
\* left out
StringifyProperties(obj, allowed, i, first) ==
  IF i > Len(allowed) THEN <<>>
  ELSE LET v == Prop(obj, allowed[i])
       IN IF v.t = "undefined"
          THEN StringifyProperties(obj, allowed, i + 1, first)
          ELSE (IF first THEN <<>> ELSE <<Punct(",")>>)
                 \o <<Scalar(JStr(<<allowed[i]>>)), Punct(":")>>
                 \o Stringify(v, allowed)
                 \o StringifyProperties(obj, allowed, i + 1, FALSE)

\* an element of an array that is undefined is written as null
StringifyElements(items, allowed, i) ==
  IF i > Len(items) THEN <<>>
  ELSE (IF i > 1 THEN <<Punct(",")>> ELSE <<>>)
         \o (IF items[i].t = "undefined" THEN <<Scalar(JNull)>>
             ELSE Stringify(items[i], allowed))
         \o StringifyElements(items, allowed, i + 1)

Stringify(value, allowed) ==
  CASE value.t = "obj" ->
         <<Punct("{")>> \o StringifyProperties(value, allowed, 1, TRUE)
                        \o <<Punct("}")>>
    [] value.t = "arr" ->
         <<Punct("[")>> \o StringifyElements(value.items, allowed, 1)
                        \o <<Punct("]")>>
    [] OTHER -> <<Scalar(value)>>

\* util.ts 5-7
canonicalJson(obj) == Stringify(obj, SortKeys(obj.ks))

RECURSIVE ParseValue(_, _)
RECURSIVE ParseMembers(_, _, _, _)
RECURSIVE ParseElements(_, _, _)

\* JSON.parse: the value that starts at token pos, and the position after it
ParseValue(toks, pos) ==
  LET tok == toks[pos]
  IN IF tok.k = "scalar" THEN [v |-> tok.v, next |-> pos + 1]
     ELSE IF tok.c = "{" THEN ParseMembers(toks, pos + 1, <<>>, <<>>)
     ELSE ParseElements(toks, pos + 1, <<>>)

ParseMembers(toks, pos, ks, vs) ==
  LET tok == toks[pos]
  IN IF tok.k = "punct" /\ tok.c = "}"
     THEN [v |-> JObj(ks, vs), next |-> pos + 1]
     ELSE IF tok.k = "punct"
     THEN ParseMembers(toks, pos + 1, ks, vs)
     ELSE LET member == ParseValue(toks, pos + 2)
          IN ParseMembers(toks, member.next, Append(ks, tok.v.segs[1]),
                          Append(vs, member.v))

ParseElements(toks, pos, items) ==
  LET tok == toks[pos]
  IN IF tok.k = "punct" /\ tok.c = "]"
     THEN [v |-> JArr(items), next |-> pos + 1]
     ELSE IF tok.k = "punct" /\ tok.c = ","
     THEN ParseElements(toks, pos + 1, items)
     ELSE LET element == ParseValue(toks, pos)
          IN ParseElements(toks, element.next, Append(items, element.v))

JsonParse(toks) == ParseValue(toks, 1).v

\* the objects canonicalJson is called on: objects of up to two keys in
\* either order, holding scalars, nested objects and an array of an object
InnerObjects ==
  {JObj(<<>>, <<>>), JObj(<<"points">>, <<JNum(1)>>),
   JObj(<<"per_game">>, <<JNum(2)>>),
   JObj(<<"points", "per_game">>, <<JNum(1), JNum(2)>>),
   JObj(<<"per_game", "points">>, <<JNum(2), JNum(1)>>)}

JsonLeaves ==
  {JNum(52), JStr(<<"Gold">>), JBool(TRUE), JNull,
   JArr(<<JObj(<<"points">>, <<JNum(1)>>)>>)} \cup InnerObjects

\* index.ts 281-286: the stats snapshot of the award of the 50 Bomb rule for
\* the 52-point game
StatsSnapshot ==
  LET stats == extractPerGameStats(Events["e1"].payload)
  IN JObj(<<"per_game", "season", "career", "rule_predicate">>,
          <<StatsJson(stats), RowJson(NoRow),
            RowJson(NewCounterRow("p1", "career", NULL, stats)),
            Rule(1).predicate>>)

JsonObjects ==
  {JObj(<<>>, <<>>), StatsSnapshot}
    \cup {JObj(<<key>>, <<v>>) : key \in {"career", "per_game"},
                                 v \in JsonLeaves}
    \cup {JObj(ks, <<v1, v2>>) : ks \in {<<"career", "per_game">>,
                                          <<"per_game", "career">>},
                                 v1 \in JsonLeaves, v2 \in JsonLeaves}

InitJson ==
  /\ queryImpl = "pool"
  /\ nullsDistinct = TRUE
  /\ env = [BATCH_SIZE |-> SmallBatchSize, MAX_ATTEMPTS |-> SmallMaxAttempts]
  /\ queue = <<>>
  /\ InitStores
  /\ InitWorkers(0)
  /\ probe = [kind |-> "json"]

\* canonicalJson called once (part_003 58), its text parsed and the parsed
\* value canonicalized again
CallCanonicalJson ==
  \E x \in JsonObjects :
    /\ probe.kind = "json"
    /\ probe' = [kind |-> "canonical", value |-> x,
                 text |-> canonicalJson(x),
                 parsed |-> JsonParse(canonicalJson(x)),
                 again |-> canonicalJson(JsonParse(canonicalJson(x)))]
    /\ UNCHANGED <<config, isShuttingDown,
                   now, queue, stores, failuresLeft, pc, sel, batch,
                   idx, processed, ruleFailed, retry, pipe>>

NextJson == CallCanonicalJson

SpecJson == InitJson /\ [][NextJson]_vars

\* ------------------------------------------------------------ health endpoint
\* GET /healthz is served while the worker loop runs.

\* queue.ts 216-220: the exact count of the queued rows that are visible
QueuedVisible(q, nowv) ==
  Cardinality({i \in DOMAIN q : /\ q[i].status = "queued"
                                /\ q[i].visible_at <= nowv})

\* queue.ts 214-233: the error of the store is thrown inside the try and
\* caught by the catch of the same function, which returns 0
getQueueLag(q, nowv, storeFails) ==
  IF storeFails THEN [threw |-> FALSE, value |-> 0]
  ELSE [threw |-> FALSE, value |-> QueuedVisible(q, nowv)]

\* index.ts 42-59: the reply of the handler to what getQueueLag did
healthzReply(lag, nowv) ==
  IF lag.threw THEN [code |-> 503, status |-> "error", time |-> nowv]
  ELSE [code |-> 200, status |-> "ok", queueLag |-> lag.value, time |-> nowv]

\* one request to /healthz, at any moment of the run, with the store
\* answering the count or failing
Healthz ==
  \E storeFails \in BOOLEAN :
    /\ probe.kind = "none"
    /\ storeFails => failuresLeft > 0
    /\ failuresLeft' = IF storeFails THEN failuresLeft - 1 ELSE failuresLeft
    /\ probe' = [kind |-> "healthz", storeFails |-> storeFails,
                 queued |-> QueuedVisible(queue, now),
                 reply |-> healthzReply(getQueueLag(queue, now, storeFails),
                                        now)]
    /\ UNCHANGED <<config, isShuttingDown,
                   now, queue, stores, pc, sel, batch, idx, processed,
                   ruleFailed, retry, pipe>>

NextHealth == NextBackoff \/ Healthz

SpecHealth == InitBackoff /\ [][NextHealth]_vars

\* ------------------------------------------------------------------ shutdown
\* SIGINT or SIGTERM runs shutdown() while the worker loop runs.

\* index.ts 66-68 and 93-94: the handler of the signal sets the flag, then
\* awaits the close of the HTTP server and the processing loop; the probe
\* keeps the signal and the await the loop was suspended at
Shutdown ==
  \E signal \in {"SIGINT", "SIGTERM"} :
    /\ ~isShuttingDown
    /\ isShuttingDown' = TRUE
    /\ probe' = [kind |-> "shutdown", signal |-> signal, at |-> pc]
    /\ UNCHANGED <<config, now, queue, stores, failuresLeft, pc, sel, batch,
                   idx, processed, ruleFailed, retry, pipe>>

\* a loop that would test the flag at every await
ExitLoopAnywhere(w) ==
  /\ pc[w] \notin {"off", "stopped", "exited"}
  /\ isShuttingDown
  /\ pc' = [pc EXCEPT ![w] = "stopped"]
  /\ UNCHANGED <<config, isShuttingDown, probe, now, queue, stores,
                 failuresLeft, sel, batch, idx, processed, ruleFailed, retry,
                 pipe>>

\* index.ts 113 and 174: the while condition finds the flag set and
\* startProcessingLoop returns
ExitLoop(w) ==
  /\ pc[w] = "idle"
  /\ isShuttingDown
  /\ pc' = [pc EXCEPT ![w] = "stopped"]
  /\ UNCHANGED <<config, isShuttingDown, probe, now, queue, stores,
                 failuresLeft, sel, batch, idx, processed, ruleFailed, retry,
                 pipe>>

\* a handler that would close the client without awaiting processingLoop
ExitProcessAtOnce(w) ==
  /\ pc[w] \notin {"off", "exited"}
  /\ isShuttingDown
  /\ pc' = [pc EXCEPT ![w] = "exited"]
  /\ UNCHANGED <<config, isShuttingDown, probe, now, queue, stores,
                 failuresLeft, sel, batch, idx, processed, ruleFailed, retry,
                 pipe>>

\* index.ts 74-85: the awaited processingLoop has resolved, the client is
\* closed and the process exits with code 0
ExitProcess(w) ==
  /\ pc[w] = "stopped"
  /\ isShuttingDown
  /\ pc' = [pc EXCEPT ![w] = "exited"]
  /\ UNCHANGED <<config, isShuttingDown, probe, now, queue, stores,
                 failuresLeft, sel, batch, idx, processed, ruleFailed, retry,
                 pipe>>

\* one worker drains a queue of a stat event followed by match events and
\* events without player_id
InitShutdown ==
  /\ InitBuild
  /\ env = [BATCH_SIZE |-> SmallBatchSize, MAX_ATTEMPTS |-> SmallMaxAttempts]
  /\ queue \in [QueueIds -> {NewQueueRow(e) : e \in {"e1", "e3", "e4"}}]
  /\ queue[1].event_id = "e1"
  /\ \A i \in QueueIds \ {1} : queue[i].event_id \in {"e3", "e4"}
  /\ InitStores
  /\ InitWorkers(1)
  /\ probe = NoProbe

\* the steps of worker w that the answer of an awaited queue call or write,
\* or the while condition, resumes
AnswerStep(w) ==
  \/ ClaimSelect(w)
  \/ ClaimUpdate(w)
  \/ LoadEvents(w)
  \/ UpdateCareer(w)
  \/ UpdateSeason(w)
  \/ UploadBadge(w)
  \/ MarkRetrySelect(w)
  \/ MarkRetryUpdate(w)
  \/ MarkDone(w)
  \/ ExitLoop(w)
  \/ ExitProcess(w)

\* the awaits after which the rule loop runs on: the reads of
\* fetchPlayerCounters and fetchCandidateRules, insertAward, attachAssetUrl
RuleLoopAwaits == {"fetch_counters", "insert_award", "attach_url"}

NextShutdown ==
  \/ \E w \in Workers :
       \/ AnswerStep(w)
       \/ FetchCountersAndRules(w)
       \/ InsertAward(w)
       \/ AttachUrl(w)
       \/ RuleError(w)
       \/ PipelineError(w)
       \/ QueueError(w)
  \/ Tick
  \/ Shutdown

\* the event loop resumes the worker whenever the call it awaits has
\* answered, and every awaited call is answered or fails: the worker is at
\* no await for ever
SpecShutdown ==
  /\ InitShutdown
  /\ [][NextShutdown]_vars
  /\ WF_vars(\E w \in Workers : AnswerStep(w))
  /\ \A w \in Workers : []<>(pc[w] \notin RuleLoopAwaits)

\* ------------------------------------------------- claimBatch, batch sizes
\* one worker claims from a queue of events that take no pipeline run, with
\* a batch size below and at the length of the queue

InitClaim ==
  /\ InitBuild
  /\ env \in [BATCH_SIZE : 1..SmallBatchSize, MAX_ATTEMPTS : {SmallMaxAttempts}]
  /\ queue \in [QueueIds -> {NewQueueRow(e) : e \in {"e3", "e4"}}]
  /\ InitStores
  /\ InitWorkers(1)
  /\ probe = NoProbe

SpecClaim == InitClaim /\ [][NextBackoff]_vars

\* ------------------------------------------------------------- properties

\* the queue items worker w holds: the rest of its batch from the item it is
\* working on, and the ids it collected for markDone
Held(w) ==
  {batch[w][k].id : k \in {j \in 1..Len(batch[w]) : j >= idx[w]}}
    \cup Range(processed[w])

\* C1: the sets of queue items that concurrent workers hold from claimBatch
\* are pairwise disjoint; an item is with a second worker only after the first
\* one gave it back through markRetry or finished it.
ClaimsDisjoint ==
  \A w1, w2 \in Workers : w1 # w2 => Held(w1) \cap Held(w2) = {}

LifecycleEdges ==
  {<<"queued", "processing">>, <<"processing", "done">>,
   <<"processing", "queued">>, <<"processing", "error">>}

\* C2: in every step a queue item keeps its status or moves along
\* queued -> processing, processing -> done, processing -> queued or
\* processing -> error; done and error are never left.
StatusLifecycle ==
  [][\A i \in QueueIds :
       queue'[i].status # queue[i].status
         => <<queue[i].status, queue'[i].status>> \in LifecycleEdges]_vars

\* C3: every queue item has attempts <= MAX_ATTEMPTS, and an item in error
\* has attempts >= MAX_ATTEMPTS.
AttemptsBounded ==
  \A i \in QueueIds :
    /\ queue[i].attempts <= env.MAX_ATTEMPTS
    /\ queue[i].status = "error" => queue[i].attempts >= env.MAX_ATTEMPTS

\* minutes of backoff after the first, second, ... failure
BackoffTable == <<2, 4, 8, 16, 32, 64, 128, 128, 128, 128, 128>>

\* worker w's markRetry writes its row in this step
MarkRetryWrites(w) ==
  /\ pc[w] = "retry_update"
  /\ pc'[w] # "retry_update"
  /\ failuresLeft' = failuresLeft

\* C4: markRetry on an item with attempts = a writes attempts a+1 and the
\* message as last_error; at a+1 >= MAX_ATTEMPTS the item becomes error and
\* keeps its visible_at, below it the item becomes queued again and visible
\* 2, 4, 8, ... minutes from now, at most 128; no other row changes.
BackoffLaw ==
  [][\A w \in Workers :
       MarkRetryWrites(w) =>
         LET i == Cur(w).id
             a == queue[i].attempts
         IN /\ queue'[i].attempts = a + 1
            /\ queue'[i].last_error = retry[w].msg
            /\ queue'[i].event_id = queue[i].event_id
            /\ IF a + 1 >= env.MAX_ATTEMPTS
               THEN /\ queue'[i].status = "error"
                    /\ queue'[i].visible_at = queue[i].visible_at
               ELSE /\ queue'[i].status = "queued"
                    /\ queue'[i].visible_at = now + BackoffTable[a + 1]
            /\ \A j \in QueueIds \ {i} : queue'[j] = queue[j]]_vars

\* C4: an item failed for the eighth time and waits the capped 128 minutes
BackoffCapped ==
  \E i \in QueueIds :
    /\ queue[i].status = "queued"
    /\ queue[i].attempts = BackoffCap + 1
    /\ queue[i].last_error # NULL
    /\ queue[i].visible_at = now + 128

\* worker w's markDone writes its rows in this step
MarkDoneWrites(w) ==
  /\ pc[w] = "mark_done"
  /\ pc'[w] = "idle"
  /\ failuresLeft' = failuresLeft

InsertAwardIdempotent ==
  /\ \A a, b \in awards : AwardKey(a) = AwardKey(b) => a = b
  /\ \A c \in awardLog : c.created <=> ~c.existed

\* C7: when insertAward was called by two workers for one tuple, one award
\* row of that tuple exists and one call in all returned an award id.
OneAwardAcrossWorkers ==
  \A c1, c2 \in awardLog :
    c1.worker # c2.worker /\ c1.key = c2.key =>
      /\ Cardinality({a \in awards : AwardKey(a) = c1.key}) = 1
      /\ Cardinality({c \in awardLog : c.key = c1.key /\ c.created}) = 1

\* C8: a queue item one of whose rules raised is not among the ids the
\* iteration hands to markDone.
RuleFailureNotDone ==
  \A w \in Workers : ruleFailed[w] \cap Range(processed[w]) = {}

\* every worker waits for work and no item is left to claim or to finish
Drained ==
  /\ \A w \in Workers : pc[w] \in {"idle", "off"}
  /\ \A i \in QueueIds : queue[i].status \in {"done", "error"}

\* C9: once the queue is drained, so that no later attempt can come, every
\* award row has its asset_svg_url.
DrainedAwardsHaveBadge ==
  Drained => \A a \in awards : a.asset_svg_url # NoUrl

\* worker w's rule at position pipe[w].ruleIdx raises in this step
RuleRaises(w) ==
  /\ pc[w] \in {"insert_award", "upload_badge", "attach_url"}
  /\ Cur(w).id \in ruleFailed'[w]
  /\ <<pc'[w], pipe'[w], idx'[w]>> # <<pc[w], pipe[w], idx[w]>>
  /\ \/ failuresLeft' = failuresLeft - 1
     \/ pc[w] = "attach_url" /\ awards' = awards

\* C10: when rule r of an event raises, the loop goes on with the rules after
\* r: the next rule whose predicate holds has its award insert attempted, and
\* the event is only left when no later rule's predicate holds.
LaterRulesStillRun ==
  [][\A w \in Workers :
       RuleRaises(w) =>
         LET k == NextPassing(pipe[w].rules, CurContext(w, pipe[w]),
                              pipe[w].ruleIdx + 1)
         IN IF k # 0
            THEN /\ pc'[w] = "insert_award"
                 /\ pipe'[w].ruleIdx = k
                 /\ idx'[w] = idx[w]
            ELSE pc'[w] \notin {"insert_award", "upload_badge",
                                "attach_url"}
                   \/ idx'[w] # idx[w]]_vars

\* C10: a rule of the current event raised and the insert of a later rule of
\* the same event is about to be attempted
LaterRuleAfterFailure ==
  \E w \in Workers :
    /\ pc[w] = "insert_award"
    /\ Cur(w).id \in ruleFailed[w]
    /\ pipe[w].ruleIdx > 1

\* the games recorded in one scope, in the order of the calls
GamesOf(scope) == SelectSeq(probe.games, LAMBDA g : g.scope = scope)

RECURSIVE SumOf(_, _)
SumOf(games, key) ==
  IF games = <<>> THEN 0
  ELSE Head(games).stats[key] + SumOf(Tail(games), key)

MaxOf(games, key) ==
  CHOOSE m \in {games[k].stats[key] : k \in 1..Len(games)} :
    \A k \in 1..Len(games) : games[k].stats[key] <= m

\* the counter rows of the player in one scope
RowsOf(scope) ==
  {k \in 1..Len(counters) : /\ counters[k].player_id = ProbePlayer
                            /\ counters[k].scope = scope}

\* C11: after N games of one player were recorded once each, in any order,
\* the scope's counter row is one row with games_played = N, pts_total the
\* sum of the games' points and max_pts_game their maximum.
CountersAreSums ==
  \A scope \in {"career", "season"} :
    LET games == GamesOf(scope)
    IN games # <<>> =>
         /\ Cardinality(RowsOf(scope)) = 1
         /\ \A k \in RowsOf(scope) :
              /\ counters[k].games_played = Len(games)
              /\ counters[k].totals["points"] = SumOf(games, "points")
              /\ counters[k].maxes["points"] = MaxOf(games, "points")

\* C12: every counter row has games_played >= 1 and, for points, ast, reb,
\* stl and blk, total >= max_game >= 0, whatever numbers the payloads hold.
CounterRowsSane ==
  \A k \in 1..Len(counters) :
    /\ counters[k].games_played >= 1
    /\ \A key \in MaxKeys :
         /\ counters[k].totals[key] >= counters[k].maxes[key]
         /\ counters[k].maxes[key] >= 0

FlagNames == {"has_50pt_game", "has_triple_double", "has_double_double"}

\* C13: a flag that is true in a counter row stays true in that row in every
\* later state.
FlagsMonotonic ==
  [][\A k \in 1..Len(counters) :
       /\ k <= Len(counters')
       /\ counters'[k].player_id = counters[k].player_id
       /\ counters'[k].scope = counters[k].scope
       /\ counters'[k].season_id = counters[k].season_id
       /\ \A f \in FlagNames : counters[k][f] => counters'[k][f]]_vars

\* C13: a row holds a flag that its latest game alone would not set
FlagKeptAfterPlainGame ==
  \E k \in 1..Len(counters) :
    LET games == GamesOf(counters[k].scope)
    IN /\ counters[k].games_played >= 2
       /\ counters[k].has_50pt_game
       /\ counters[k].has_triple_double
       /\ games # <<>>
       /\ ~detectAchievementFlags(games[Len(games)].stats).has_50pt_game
       /\ ~detectAchievementFlags(games[Len(games)].stats).has_triple_double

\* worker w's upsert of the scope's counter row commits in this step
UpsertCommits(w, scope) ==
  IF scope = "career"
  THEN pc[w] = "update_career" /\ pc'[w] \in {"update_season", "fetch_counters"}
  ELSE pc[w] = "update_season" /\ pc'[w] = "fetch_counters"

\* the positions of the rows of one key (player_id, scope, season_id)
KeyRows(rows, playerId, scope, seasonId) ==
  {k \in 1..Len(rows) : /\ rows[k].player_id = playerId
                        /\ rows[k].scope = scope
                        /\ rows[k].season_id = seasonId}

\* C14: every upsert a worker issues through the pool is reflected, whatever
\* the other workers do to the same key: afterwards one row of the key
\* exists, with games_played one higher and every total higher by the game's
\* stats than before (or those of the game alone when the key was new).
UpsertsReflected ==
  [][\A w \in Workers : \A scope \in {"career", "season"} :
       queryImpl = "pool" /\ UpsertCommits(w, scope) =>
         LET p == CurEvent(w).player_id
             sid == IF scope = "career" THEN NULL ELSE CurEvent(w).season_id
             stats == CurStats(w)
             old == KeyRows(counters, p, scope, sid)
             new == KeyRows(counters', p, scope, sid)
         IN /\ Cardinality(new) = 1
            /\ \A k \in new :
                 IF old = {}
                 THEN /\ counters'[k].games_played = 1
                      /\ counters'[k].totals = stats
                 ELSE \E j \in old :
                        /\ counters'[k].games_played =
                             counters[j].games_played + 1
                        /\ \A key \in StatSet :
                             counters'[k].totals[key] =
                               counters[j].totals[key] + stats[key]]_vars

\* C16: whatever store call of an iteration fails, no item is left in
\* processing without a worker that holds it: what the failed iteration had
\* claimed is given back or finished.
NoOrphanedItem ==
  \A i \in QueueIds :
    queue[i].status = "processing" => \E w \in Workers : i \in Held(w)

\* every worker waits for work and no item is queued, now or later
NothingToClaim ==
  /\ \A w \in Workers : pc[w] \in {"idle", "off"}
  /\ \A i \in QueueIds : queue[i].status # "queued"

\* C15: every queue item reaches done or error: when the workers have
\* nothing left to claim, so that no further step can follow, no item is in
\* another status.
EveryItemSettled ==
  NothingToClaim => \A i \in QueueIds : queue[i].status \in {"done", "error"}

FilterFields == {"game_year", "league_id", "season_id"}

\* the rule is active, of an accepted scope, and each filter it sets equals
\* the event's field
Eligible(rule, event) ==
  /\ rule.is_active
  /\ rule.scope \in {"per_game", "season", "career"}
  /\ \A f \in FilterFields : rule[f] # NULL => rule[f] = event[f]

Truthy(v) ==
  CASE v.t = "bool" -> v.b
    [] v.t = "num" -> v.n # 0
    [] v.t = "str" -> v.segs # <<"">>
    [] v.t \in {"null", "undefined"} -> FALSE
    [] OTHER -> TRUE

\* C19: a path where a boolean is expected evaluates to the value found in
\* the context: at the root and under "and" and "or" the predicate is true
\* exactly when that value is, under "not" exactly when it is not, and a
\* missing path counts as false.
PathIsLookedUp ==
  probe.kind = "evaluated" /\ probe.predicate \in PathPredicates =>
    LET root == probe.predicate.t = "str"
        path == IF root THEN probe.predicate
                ELSE probe.predicate.vs[1].items[1]
        found == Truthy(get(ProbeContext(probe), path))
    IN probe.result =
         IF ~root /\ probe.predicate.ks[1] = "not" THEN ~found ELSE found

\* the number an operand of a comparison stands for in the probe's context
OperandNumber(kind, p) ==
  CASE kind = "twelve" -> [ok |-> TRUE, n |-> 12]
    [] kind = "fifty" -> [ok |-> TRUE, n |-> 50]
    [] kind = "points" -> [ok |-> TRUE, n |-> p.stats["points"]]
    [] kind = "points_plus_one" -> [ok |-> TRUE, n |-> p.stats["points"] + 1]
    [] kind = "pts_total" ->
         IF p.career = NoRow THEN [ok |-> FALSE, n |-> 0]
         ELSE [ok |-> TRUE, n |-> p.career.totals["points"]]
    [] OTHER -> [ok |-> FALSE, n |-> 0]

IntCompare(op, a, b) ==
  CASE op = ">=" -> a >= b
    [] op = ">" -> a > b
    [] op = "<=" -> a <= b
    [] op = "<" -> a < b

\* C20: a comparison of two operands is false when either operand resolves
\* to no number (missing path, boolean, string, object) and is the numeric
\* comparison of the two numbers otherwise.
ComparisonIsNumeric ==
  probe.kind = "evaluated" /\ probe.predicate \in ComparisonPredicates =>
    LET op == probe.predicate.ks[1]
        args == probe.predicate.vs[1].items
        l == CHOOSE o \in Operands : o.node = args[1]
        r == CHOOSE o \in Operands : o.node = args[2]
        a == OperandNumber(l.kind, probe)
        b == OperandNumber(r.kind, probe)
    IN probe.result = (a.ok /\ b.ok /\ IntCompare(op, a.n, b.n))

\* C20: a comparison of a path that is missing with a negative number of
\* points was evaluated
MissingOperandCompared ==
  /\ probe.kind = "evaluated"
  /\ probe.predicate = JOp("<=", <<PathTypo, PathPoints>>)
  /\ probe.stats["points"] < 0

\* C21: "and" is true exactly when every child evaluates to true and "or"
\* exactly when some child does, so "and" of no child is true and "or" of no
\* child is false; the children are evaluated in order up to the first one
\* that decides the result (a false child of "and", a true child of "or") and
\* no further.
LogicalIsEveryOrSome ==
  probe.kind = "evaluated" /\ probe.predicate \in LogicalPredicates =>
    LET op == probe.predicate.ks[1]
        items == probe.predicate.vs[1].items
        truth == [k \in 1..Len(items) |->
                    evaluateNode(items[k], ProbeContext(probe))]
        deciding == {k \in 1..Len(items) : truth[k] = (op = "or")}
    IN /\ probe.result = IF op = "and" THEN \A k \in 1..Len(items) : truth[k]
                         ELSE \E k \in 1..Len(items) : truth[k]
       /\ probe.visited = IF deciding = {} THEN Len(items)
                          ELSE CHOOSE k \in deciding :
                                 \A j \in deciding : k <= j

\* C21: an "or" was decided by its second child of three, a comparison
OrDecidedBySecondChild ==
  /\ probe.kind = "evaluated"
  /\ probe.predicate =
       JOp("or", <<JNull, JOp(">=", <<PathPoints, JNum(50)>>), JBool(FALSE)>>)
  /\ probe.result = TRUE
  /\ probe.visited = 2

\* C22: a "not" node is true exactly when its child evaluates to false,
\* whether the child is the one element of an argument list or the single
\* argument itself.
NotNegatesChild ==
  probe.kind = "evaluated" /\ probe.predicate \in NotPredicates =>
    LET args == probe.predicate.vs[1]
        child == IF isArray(args) THEN args.items[1] ELSE args
    IN probe.result = ~evaluateNode(child, ProbeContext(probe))

\* the integer an operand of an arithmetic node stands for
ArithOperand(node, p) ==
  IF node = PathPoints THEN p.stats["points"] ELSE node.n

\* whether a op b is not zero, division by zero being zero
ArithNonZero(op, a, b) ==
  CASE op = "+" -> a + b # 0
    [] op = "-" -> a - b # 0
    [] op = "*" -> a * b # 0
    [] op = "/" -> b # 0 /\ a # 0

\* whether (a op b) cmp c, division by zero being zero
ArithCompare(op, a, b, cmp, c) ==
  CASE op = "+" -> IntCompare(cmp, a + b, c)
    [] op = "-" -> IntCompare(cmp, a - b, c)
    [] op = "*" -> IntCompare(cmp, a * b, c)
    [] op = "/" -> IF b = 0 THEN IntCompare(cmp, 0, c)
                   ELSE IF b > 0 THEN IntCompare(cmp, a, c * b)
                   ELSE IntCompare(cmp, c * b, a)

\* C23: an arithmetic node over two numbers compares as its numeric result
\* when it is the operand of a comparison, a division by zero counting as
\* zero, and where a boolean is expected it is true exactly when that result
\* is not zero.
ArithmeticIsNumeric ==
  probe.kind = "evaluated" /\ probe.predicate \in ArithmeticPredicates =>
    LET root == probe.predicate.ks[1]
        args == probe.predicate.vs[1].items
        node == IF root \in ArithOps THEN probe.predicate ELSE args[1]
        op == node.ks[1]
        a == ArithOperand(node.vs[1].items[1], probe)
        b == ArithOperand(node.vs[1].items[2], probe)
    IN probe.result = IF root \in ArithOps THEN ArithNonZero(op, a, b)
                      ELSE ArithCompare(op, a, b, root, args[2].n)

\* C23: a division of -5 points by zero was compared with zero and found
\* not below it
DivisionByZeroCompared ==
  /\ probe.kind = "evaluated"
  /\ probe.predicate = JOp(">=", <<JOp("/", <<PathPoints, JNum(0)>>), JNum(0)>>)
  /\ probe.stats["points"] = -5
  /\ probe.result = TRUE

\* an event the pipeline ignores: a match_event or an unknown type
NoopEvent(e) ==
  e \in EventIds /\ Events[e].event_type # "player_stat_event"

\* the awaits of processPlayerStatEvent, where counters, awards and badges
\* are written
PipelineStates ==
  {"update_career", "update_season", "fetch_counters", "insert_award",
   "upload_badge", "attach_url"}

\* worker w is working on an item of its batch
AtItem(w) == idx[w] >= 1 /\ idx[w] <= Len(batch[w])

\* the items of worker w's batch that the for loop is through with
PassedItems(w) ==
  {batch[w][k] : k \in {j \in 1..Len(batch[w]) : j < idx[w]}}

\* C24: an event of type match_event or of an unknown type never has a
\* worker in the pipeline or in markRetry for it, so nothing is written for
\* it; once the for loop is past its item the item is among the ids of the
\* iteration's markDone, markDone turns it into done, and its attempts stay
\* as they were.
NoopEventsAreDone ==
  /\ [](/\ \A i \in QueueIds :
             NoopEvent(queue[i].event_id) =>
               /\ queue[i].attempts = 0
               /\ queue[i].last_error = NULL
               /\ queue[i].status \in {"queued", "processing", "done"}
        /\ \A w \in Workers :
             /\ AtItem(w) /\ pc[w] \in PipelineStates
                                     \cup {"retry_select", "retry_update"}
                  => ~NoopEvent(Cur(w).event_id)
             /\ \A item \in PassedItems(w) :
                  NoopEvent(item.event_id) => item.id \in Range(processed[w]))
  /\ [][\A w \in Workers :
          MarkDoneWrites(w) =>
            \A i \in Range(processed[w]) :
              queue'[i] = [queue[i] EXCEPT !.status = "done"]]_vars

\* C24: a match_event and an event of an unknown type were both marked done
NoopEventsDone ==
  /\ queue[1].event_id = "e3" /\ Events["e3"].event_type = "match_event"
  /\ queue[2].event_id = "e5" /\ Events["e5"].event_type = "telemetry"
  /\ \A i \in {1, 2} : queue[i].status = "done" /\ queue[i].attempts = 0
  /\ counters = <<>> /\ awards = {} /\ objectStore = {}

\* a player_stat_event without player_id
MissingPlayer(e) ==
  /\ e \in EventIds
  /\ Events[e].event_type = "player_stat_event"
  /\ Events[e].player_id = NULL

FiftyTwoDone == {i \in QueueIds : queue[i].event_id = "e1"
                                    /\ queue[i].status = "done"}

\* the counter rows of p1 in one scope
PlayerRows(scope) ==
  {k \in 1..Len(counters) : /\ counters[k].player_id = "p1"
                            /\ counters[k].scope = scope}

\* C26: once the worker has processed n >= 1 events of p1 with 52 points,
\* each at its first attempt and with no store call failing, while the
\* active per_game rule per_game.points >= 50 exists, p1's career counters
\* are one row with games_played = n, pts_total = 52 n, max_pts_game = 52
\* and has_50pt_game, and one award of that rule exists.
FiftyPointGameEndToEnd ==
  /\ Drained
  /\ failuresLeft = MaxFailures
  /\ FiftyTwoDone # {}
  /\ \A i \in QueueIds :
       \/ i \in FiftyTwoDone /\ queue[i].attempts = 0
       \/ queue[i].event_id \in {"e0", "e3", "e4", "e5"}
  => /\ Cardinality(PlayerRows("career")) = 1
     /\ \A k \in PlayerRows("career") :
          /\ counters[k].games_played = Cardinality(FiftyTwoDone)
          /\ counters[k].totals["points"] = 52 * Cardinality(FiftyTwoDone)
          /\ counters[k].maxes["points"] = 52
          /\ counters[k].has_50pt_game
     /\ Cardinality({a \in awards : a.rule_id = 1 /\ a.player_id = "p1"}) = 1

\* the awaits of one rule of the rule loop: insertAward, the upload of the
\* badge, attachAssetUrl
RuleStates == {"insert_award", "upload_badge", "attach_url"}

\* worker w is done with the rule at pipe[w].ruleIdx in this step
RuleHandled(w) ==
  /\ pc[w] \in RuleStates
  /\ pc'[w] \notin {"upload_badge", "attach_url"}
  /\ <<pc'[w], pipe'[w], idx'[w]>> # <<pc[w], pipe[w], idx[w]>>

\* C27: insertAward is attempted, and a badge rendered, only for a rule
\* whose predicate is true in the event's context, so never for the rule
\* that names the missing path per_game.pointz; and when every rule after
\* the one just handled evaluates to false, the event completes: its item is
\* among the ids of markDone and is not handed to markRetry.
FalseRulesAreSkipped ==
  /\ [](/\ \A w \in Workers :
             pc[w] \in RuleStates =>
               evalPredicate(Rule(pipe[w].rules[pipe[w].ruleIdx]).predicate,
                             CurContext(w, pipe[w]))
        /\ \A c \in awardLog : c.key[2] # 5
        /\ \A a \in awards : a.rule_id # 5)
  /\ [][\A w \in Workers :
          /\ RuleHandled(w)
          /\ \A k \in (pipe[w].ruleIdx + 1)..Len(pipe[w].rules) :
               ~evalPredicate(Rule(pipe[w].rules[k]).predicate,
                              CurContext(w, pipe[w]))
          => /\ Cur(w).id \in Range(processed'[w])
             /\ idx'[w] > idx[w]
             /\ awardLog' \subseteq awardLog \cup
                  {c \in awardLog' : c.key[2] = pipe[w].rules[pipe[w].ruleIdx]}]_vars

\* C27: the 52-point game is done with the awards of the two rules that
\* hold, the rules after them (the missing path among them) being false
FalseRulesSkippedAndDone ==
  /\ queue[1].event_id = "e1"
  /\ queue[1].status = "done"
  /\ queue[1].attempts = 0
  /\ {a.rule_id : a \in awards} = {1, 2}
  /\ 5 \in Range(SelectRules(1, Events["e1"].game_year, Events["e1"].league_id,
                             Events["e1"].season_id))

\* equality of two JSON values as values: the order of the keys of an
\* object does not count
RECURSIVE ValueEq(_, _)
ValueEq(x, y) ==
  /\ x.t = y.t
  /\ CASE x.t = "obj" ->
            /\ Range(x.ks) = Range(y.ks)
            /\ \A key \in Range(x.ks) : ValueEq(Prop(x, key), Prop(y, key))
       [] x.t = "arr" ->
            /\ Len(x.items) = Len(y.items)
            /\ \A k \in 1..Len(x.items) : ValueEq(x.items[k], y.items[k])
       [] OTHER -> x = y

\* the keys of every object of the value are in ascending order
RECURSIVE KeysSorted(_)
KeysSorted(x) ==
  CASE x.t = "obj" ->
         /\ \A k \in 1..(Len(x.ks) - 1) : KeyRank(x.ks[k]) < KeyRank(x.ks[k + 1])
         /\ \A k \in 1..Len(x.vs) : KeysSorted(x.vs[k])
    [] x.t = "arr" -> \A k \in 1..Len(x.items) : KeysSorted(x.items[k])
    [] OTHER -> TRUE

\* C28: for every JSON object x, nested objects such as the stats snapshot
\* of an award included, parsing canonicalJson(x) gives a value equal to x
\* with no key dropped at any level, the keys of every object of the text
\* are in sorted order, and canonicalizing the parsed value gives the same
\* text again.
CanonicalJsonRoundTrips ==
  probe.kind = "canonical" =>
    /\ ValueEq(probe.parsed, probe.value)
    /\ KeysSorted(probe.parsed)
    /\ probe.again = probe.text

\* C29: /healthz answers 200 with the number of queued visible rows exactly
\* when the count query succeeds, and 503 when the store fails it: a store
\* failure is never answered as status ok with queueLag 0.
HealthzReflectsStore ==
  probe.kind = "healthz" =>
    /\ probe.storeFails <=> probe.reply.code = 503
    /\ ~probe.storeFails =>
         /\ probe.reply.code = 200
         /\ probe.reply.status = "ok"
         /\ probe.reply.queueLag = probe.queued
    /\ probe.storeFails => probe.reply.status # "ok"

\* the loop is not inside an iteration
OutsideIteration == {"off", "idle", "stopped", "exited"}

\* C30: setting the cancellation flag changes nothing of the loop's state;
\* the loop stops only at its while condition, with the flag set and no
\* batch in hand, and starts no claimBatch once it is there with the flag
\* set; with the flag set, a worker in the pipeline leaves its event only
\* with the item pushed to processedQueueIds or handed to markRetry; when
\* the iteration in progress ends without a queue call failing, every item
\* of its batch is done through markDone or has had its markRetry; and the
\* loop does stop and the process exit.
ShutdownIsCooperative ==
  /\ [][\A w \in Workers :
          /\ isShuttingDown' # isShuttingDown =>
               /\ isShuttingDown'
               /\ UNCHANGED <<queue, stores, pc, sel, batch, idx, processed,
                              ruleFailed, retry, pipe>>
          /\ pc'[w] = "stopped" /\ pc[w] # "stopped" =>
               /\ isShuttingDown
               /\ pc[w] = "idle"
               /\ batch[w] = <<>> /\ sel[w] = <<>>
               /\ UNCHANGED <<queue, stores>>
          /\ isShuttingDown /\ pc[w] \in OutsideIteration =>
               pc'[w] \in OutsideIteration /\ sel'[w] = <<>>
          /\ isShuttingDown /\ pc[w] \in PipelineStates =>
               /\ pc'[w] \in PipelineStates \cup {"retry_select", "mark_done"}
               /\ idx'[w] # idx[w] => Cur(w).id \in Range(processed'[w])
               /\ idx'[w] = idx[w] => pc'[w] # "mark_done"
          /\ /\ isShuttingDown
             /\ pc[w] \notin OutsideIteration
             /\ pc'[w] = "idle"
             /\ failuresLeft' = failuresLeft
             => \A k \in DOMAIN batch[w] :
                  LET row == queue'[batch[w][k].id]
                  IN \/ /\ row.status = "done"
                        /\ batch[w][k].id \in Range(processed[w])
                     \/ /\ row.status \in {"queued", "error"}
                        /\ row.attempts > 0]_vars
  /\ (isShuttingDown ~> \A w \in Workers : pc[w] \in {"off", "exited"})

\* C30: SIGTERM arrived while the worker awaited updateSeasonCounters for the
\* first item of its batch; the process has exited with that item done and
\* the second item, an event without player_id, retried once
ShutdownFinishedTheBatch ==
  /\ probe.kind = "shutdown"
  /\ probe.at[1] = "update_season"
  /\ pc[1] = "exited"
  /\ queue[1].event_id = "e1" /\ queue[1].status = "done"
  /\ queue[2].event_id = "e4" /\ queue[2].status = "queued"
  /\ queue[2].attempts = 1

\* C31: every step keeps every award row, with all its columns but
\* asset_svg_url as they were, and an asset_svg_url that is set stays set;
\* a step of attachAssetUrl that writes changes the one row with the id it
\* was given, and gives it a non-null asset_svg_url.
AssetUrlOnlyBecomesSet ==
  [][/\ \A a \in awards :
          \E b \in awards' :
            /\ b.id = a.id
            /\ [b EXCEPT !.asset_svg_url = a.asset_svg_url] = a
            /\ a.asset_svg_url # NoUrl => b.asset_svg_url # NoUrl
     /\ \A w \in Workers :
          pc[w] = "attach_url" /\ awards' # awards =>
            \E a \in awards :
              /\ a.id = pipe[w].awardId
              /\ \E url \in {BadgeKey(CurEvent(w).player_id, a.id)} :
                   /\ url # NoUrl
                   /\ awards' = (awards \ {a})
                                  \cup {[a EXCEPT !.asset_svg_url = url]}]_vars

\* C31: two awards of one event have their badge, the second attached
\* while the first had its asset_svg_url already
TwoAwardsWithBadge ==
  /\ Cardinality(awards) = 2
  /\ \A a \in awards : a.asset_svg_url = BadgeKey(a.player_id, a.id)
  /\ \E a, b \in awards : a.rule_id = 1 /\ b.rule_id = 2

\* the queue items a select of claimBatch may return
VisibleQueued == {i \in QueueIds : /\ queue[i].status = "queued"
                              /\ queue[i].visible_at <= now}

\* C32: the select of claimBatch returns at most BATCH_SIZE ids in
\* ascending order, each of an item that is queued with visible_at <= now,
\* and no eligible item with a lower id than a returned one is left out; it
\* changes no row; with no eligible item no batch is claimed; the update
\* leaves every returned item in processing, changes no other row, and the
\* batch handed to the loop is the selected ids.
ClaimBatchTakesLowestEligible ==
  [][\A w \in Workers :
       /\ pc[w] = "idle" /\ pc'[w] = "claim_update" =>
            /\ Len(sel'[w]) \in 1..env.BATCH_SIZE
            /\ \A k \in 1..Len(sel'[w]) - 1 : sel'[w][k] < sel'[w][k + 1]
            /\ Range(sel'[w]) \subseteq VisibleQueued
            /\ \A i \in VisibleQueued \ Range(sel'[w]) :
                 /\ Len(sel'[w]) = env.BATCH_SIZE
                 /\ \A j \in Range(sel'[w]) : j < i
            /\ queue' = queue
       /\ pc[w] = "idle" /\ VisibleQueued = {} => pc'[w] # "claim_update"
       /\ pc[w] = "claim_update" /\ pc'[w] = "load_events" =>
            /\ [k \in DOMAIN batch'[w] |-> batch'[w][k].id] = sel[w]
            /\ \A i \in Range(sel[w]) :
                 queue'[i] = [queue[i] EXCEPT !.status = "processing"]
            /\ \A i \in QueueIds \ Range(sel[w]) : queue'[i] = queue[i]]_vars

\* C32: the batch in hand holds an item that markRetry had rescheduled, now
\* in processing, its visible_at reached
RescheduledItemClaimed ==
  /\ pc[1] = "load_events"
  /\ now > 0
  /\ \E k \in DOMAIN batch[1] :
       /\ queue[batch[1][k].id].attempts >= 1
       /\ queue[batch[1][k].id].status = "processing"
       /\ queue[batch[1][k].id].visible_at <= now

\* C33: markRetry is an atomic read-modify-write: its update raises the
\* attempts the row holds at that moment by one, so that two overlapping
\* calls for one item raise them by two, and the status it writes is error
\* exactly when the attempts it leaves have reached MAX_ATTEMPTS.
MarkRetryIsAtomic ==
  [][\A w \in Workers :
       MarkRetryWrites(w) =>
         LET i == Cur(w).id
         IN /\ queue'[i].attempts = queue[i].attempts + 1
            /\ queue'[i].status = "error"
                 <=> queue'[i].attempts >= env.MAX_ATTEMPTS]_vars

\* the awaits of the handling of one item: the pipeline and markRetry
ItemStates == PipelineStates \cup {"retry_select", "retry_update"}

\* C34: the batch of a worker is in ascending queue id order; while the
\* worker handles the item at position idx, every item before it is among
\* processedQueueIds or has had its markRetry; the position never moves
\* back, and it moves on only past items that are pushed to
\* processedQueueIds or whose markRetry has just written.
BatchInQueueIdOrder ==
  /\ [](\A w \in Workers :
          /\ \A k \in 1..Len(batch[w]) - 1 :
               batch[w][k].id < batch[w][k + 1].id
          /\ AtItem(w) /\ pc[w] \in ItemStates =>
               \A item \in PassedItems(w) :
                 \/ item.id \in Range(processed[w])
                 \/ /\ queue[item.id].status \in {"queued", "error"}
                    /\ queue[item.id].attempts > 0)
  /\ [][\A w \in Workers :
          batch[w] # <<>> /\ batch'[w] = batch[w] =>
            /\ idx'[w] >= idx[w]
            /\ \A k \in idx[w]..idx'[w] - 1 :
                 \/ batch[w][k].id \in Range(processed'[w])
                 \/ k = idx[w] /\ pc[w] = "retry_update"]_vars

\* C34: the worker runs the pipeline for the second item of its batch after
\* the markRetry of the first, an event without player_id
SecondItemAfterFirst ==
  /\ pc[1] = "update_career"
  /\ idx[1] = 2
  /\ batch[1][1].id = 1 /\ batch[1][2].id = 2
  /\ queue[1].event_id = "e4" /\ queue[1].attempts = 1
  /\ queue[2].status = "processing"

\* the career rows of the player of worker w's event
CareerRowsOfCur(w) ==
  {k \in 1..Len(counters) : /\ counters[k].player_id = CurEvent(w).player_id
                            /\ counters[k].scope = "career"}

\* C35: when the pipeline raises after updateCareerCounters, the counter
\* rows stay as they are and the item goes to markRetry; and when a retried
\* item reaches updateCareerCounters again while the player has a career
\* row, the same stats are added once more: the row's games_played grows by
\* one and its pts_total by the points of the event.
RetryAddsStatsAgain ==
  [][\A w \in Workers :
       /\ pc[w] \in {"update_season", "fetch_counters"}
            /\ failuresLeft' # failuresLeft =>
              /\ counters' = counters
              /\ pc'[w] = "retry_select"
              /\ idx'[w] = idx[w]
       /\ /\ pc[w] = "update_career"
          /\ pc'[w] \in {"update_season", "fetch_counters"}
          /\ queue[Cur(w).id].attempts >= 1
          /\ CareerRowsOfCur(w) # {}
          => \E k \in CareerRowsOfCur(w) :
               /\ counters'[k].games_played = counters[k].games_played + 1
               /\ counters'[k].totals["points"] =
                    counters[k].totals["points"] + CurStats(w)["points"]]_vars

\* the game of the last upsert of the direct calls, and the rows of its key
LastGame == probe'.games[Len(probe'.games)]
RowsOfLastKey == {k \in 1..Len(counters) : counters[k].scope = LastGame.scope}

\* C36: an upsert with stats s on a key without row adds a row with
\* games_played 1, the totals and maxima of s and the flags derived from s;
\* on a key with a row it raises that row's games_played by one, adds s to
\* the totals, takes the greater of each maximum and ORs the derived flags
\* into the row's; every other row stays as it was.
UpsertInsertsOrMerges ==
  [][probe.kind = "counters" =>
       LET s == LastGame.stats
           flags == detectAchievementFlags(s)
       IN IF RowsOfLastKey = {}
          THEN /\ Len(counters') = Len(counters) + 1
               /\ \A k \in 1..Len(counters) : counters'[k] = counters[k]
               /\ LET row == counters'[Len(counters')]
                  IN /\ row.player_id = ProbePlayer
                     /\ row.scope = LastGame.scope
                     /\ row.games_played = 1
                     /\ \A f \in StatSet : row.totals[f] = s[f]
                     /\ \A f \in MaxKeys : row.maxes[f] = s[f]
                     /\ row.has_50pt_game = flags.has_50pt_game
                     /\ row.has_double_double = flags.has_double_double
                     /\ row.has_triple_double = flags.has_triple_double
          ELSE /\ Len(counters') = Len(counters)
               /\ \E k \in RowsOfLastKey :
                    /\ \A j \in 1..Len(counters) \ {k} :
                         counters'[j] = counters[j]
                    /\ counters'[k].games_played = counters[k].games_played + 1
                    /\ \A f \in StatSet :
                         counters'[k].totals[f] = counters[k].totals[f] + s[f]
                    /\ \A f \in MaxKeys :
                         counters'[k].maxes[f] =
                           IF s[f] > counters[k].maxes[f] THEN s[f]
                           ELSE counters[k].maxes[f]
                    /\ counters'[k].has_50pt_game
                         = (counters[k].has_50pt_game \/ flags.has_50pt_game)
                    /\ counters'[k].has_double_double
                         = (counters[k].has_double_double
                              \/ flags.has_double_double)
                    /\ counters'[k].has_triple_double
                         = (counters[k].has_triple_double
                              \/ flags.has_triple_double)]_vars

\* d: how many of points, ast, reb, stl, blk of one game are at least ten
Ten(v) == IF v >= 10 THEN 1 ELSE 0
DoubleDigits(s) ==
  Ten(s["points"]) + Ten(s["ast"]) + Ten(s["reb"]) + Ten(s["stl"])
    + Ten(s["blk"])

\* C37: the flags derived from a game are has_50pt_game = (points >= 50),
\* has_double_double = (d >= 2) and has_triple_double = (d >= 3); so a triple
\* double implies a double double, in the derived flags and in every counter
\* row, and a flag of a row comes from a game of the row's scope.
FlagsFollowDoubleDigits ==
  probe.kind = "counters" =>
    /\ \A i \in 1..Len(probe.games) :
         LET s == probe.games[i].stats
             flags == detectAchievementFlags(s)
         IN /\ flags.has_50pt_game = (s["points"] >= 50)
            /\ flags.has_double_double = (DoubleDigits(s) >= 2)
            /\ flags.has_triple_double = (DoubleDigits(s) >= 3)
            /\ flags.has_triple_double => flags.has_double_double
    /\ \A k \in 1..Len(counters) :
         LET games == {i \in 1..Len(probe.games) :
                         probe.games[i].scope = counters[k].scope}
         IN /\ counters[k].has_triple_double => counters[k].has_double_double
            /\ counters[k].has_triple_double
                 => \E i \in games : DoubleDigits(probe.games[i].stats) >= 3
            /\ counters[k].has_double_double
                 => \E i \in games : DoubleDigits(probe.games[i].stats) >= 2
            /\ counters[k].has_50pt_game
                 => \E i \in games : probe.games[i].stats["points"] >= 50

\* a row holds a triple double although a game with one category was recorded
TripleDoubleRecorded ==
  /\ probe.kind = "counters"
  /\ \E k \in 1..Len(counters) :
       counters[k].has_triple_double /\ ~counters[k].has_50pt_game
  /\ \E i \in 1..Len(probe.games) : DoubleDigits(probe.games[i].stats) = 1

\* the scope key the claim names for a rule and the event being processed
ScopeKeyOf(rule, event) ==
  IF rule.scope = "per_game" THEN event.match_id
  ELSE IF rule.scope = "season" THEN event.season_id
  ELSE NULL

\* C38: insertAward is called with scope_key = the event's match_id for a
\* per_game rule, its season_id for a season rule and null for a career
\* rule, and with level 1; so no two award rows share player, rule and scope
\* key: a career rule gives a player one award at most, a season rule one
\* per season and a per_game rule one per match.
OneAwardPerScopeKey ==
  /\ [][\A w \in Workers :
          pc[w] = "insert_award" /\ awardLog' # awardLog =>
            LET rule == Rule(pipe[w].rules[pipe[w].ruleIdx])
            IN \E c \in awardLog' :
                 /\ c.worker = w
                 /\ c.key = <<CurEvent(w).player_id, rule.id,
                              ScopeKeyOf(rule, CurEvent(w)), 1>>]_vars
  /\ [](\A a, b \in awards :
          /\ a.level = 1
          /\ Rule(a.rule_id).scope = "career" => a.scope_key = NULL
          /\ /\ a.player_id = b.player_id
             /\ a.rule_id = b.rule_id
             /\ a.scope_key = b.scope_key
             => a = b)

\* C39: the client is closed only with the cancellation flag set and the
\* processing loop returned, with no batch in hand; once it is closed the
\* loop issues no queue, counter, award or object store operation and stays
\* closed; and a loop that has returned has the flag set.
ClosedAfterLoopReturned ==
  /\ [][\A w \in Workers :
          /\ pc'[w] = "exited" /\ pc[w] # "exited" =>
               /\ isShuttingDown
               /\ pc[w] = "stopped"
               /\ batch[w] = <<>> /\ sel[w] = <<>>
          /\ pc[w] = "exited" =>
               /\ pc'[w] = "exited"
               /\ UNCHANGED <<queue, stores, batch, sel, pipe>>]_vars
  /\ [](\A w \in Workers : pc[w] \in {"stopped", "exited"} => isShuttingDown)

\* the signal arrived while the worker awaited markDone; the client is closed
\* and an item of the queue is done
ClosedAfterMarkDone ==
  /\ probe.kind = "shutdown"
  /\ probe.at[1] = "mark_done"
  /\ pc[1] = "exited"
  /\ \E i \in QueueIds : queue[i].status = "done"

\* the workers whose batch in hand holds queue item i: each has claimed it
HoldersOf(i) ==
  {w \in Workers : \E k \in DOMAIN batch[w] : batch[w][k].id = i}

\* C40: an item is claimed at most MAX_ATTEMPTS times, by any number of
\* workers: the workers that hold an item, each by a claim of its own, are
\* never more than its attempts + 1, and claimBatch hands out no item that
\* has had MAX_ATTEMPTS failed attempts.
ClaimsWithinAttempts ==
  /\ [](\A i \in QueueIds : Cardinality(HoldersOf(i)) <= queue[i].attempts + 1)
  /\ [][\A w \in Workers :
          pc[w] = "claim_update" /\ pc'[w] = "load_events" =>
            \A k \in DOMAIN batch'[w] :
              queue[batch'[w][k].id].attempts < env.MAX_ATTEMPTS]_vars

====
